---- MODULE Spec2Model ----
(***************************************************************************)
(* A model of pydantic-kitbash: the helpers of pydantic_kitbash/utils.py,  *)
(* the node builder and label registry of pydantic_kitbash/base.py and the *)
(* two directives (kitbash-field, kitbash-model).                          *)
(*                                                                         *)
(* Python strings are sequences of one-character strings, so that          *)
(* lower(), startswith(), rsplit('.') and the regular expressions are      *)
(* computed character by character.  Python values are tagged tuples:      *)
(*   <<"None">>, <<"bool", b>>, <<"str", s>>, <<"list", seq>>,             *)
(*   <<"ellipsis">>, and a raised exception is <<"raise", name>>.          *)
(***************************************************************************)
EXTENDS Integers, Sequences, FiniteSets, TLC

VARIABLES labels, anonlabels, ret, rendered, nruns, inv

vars == <<labels, anonlabels, ret, rendered, nruns, inv>>

(***************************************************************************)
(* Bounds of the model.                                                    *)
(***************************************************************************)
MaxBody == 3
MaxRuns == 2
MaxMetadata == 3

(***************************************************************************)
(* Python values.                                                          *)
(***************************************************************************)
NoneV == <<"None">>
Bool(b) == <<"bool", b>>
Str(s) == <<"str", s>>
List(l) == <<"list", l>>
Tuple(t) == <<"tuple", t>>
EllipsisV == <<"ellipsis">>
Raise(e) == <<"raise", e>>

IsNone(v) == v[1] = "None"
IsStr(v) == v[1] = "str"
IsRaise(v) == v[1] = "raise"

\* bool(v): the truth value Python's `if v:` takes.
Truthy(v) ==
    CASE v[1] = "None" -> FALSE
      [] v[1] = "bool" -> v[2]
      [] v[1] = "str" -> Len(v[2]) > 0
      [] v[1] = "list" -> Len(v[2]) > 0
      [] v[1] = "tuple" -> Len(v[2]) > 0
      [] OTHER -> TRUE

NONE_STR == <<"N", "o", "n", "e">>

\* str(v) of a constant of the syntax tree.
PyStr(v) ==
    CASE v[1] = "str" -> v[2]
      [] v[1] = "ellipsis" -> <<"E", "l", "l", "i", "p", "s", "i", "s">>
      [] OTHER -> NONE_STR

(***************************************************************************)
(* Strings.                                                                *)
(***************************************************************************)
StartsWith(s, p) == Len(s) >= Len(p) /\ SubSeq(s, 1, Len(p)) = p

LowerChar(c) ==
    CASE c = "A" -> "a" [] c = "B" -> "b" [] c = "C" -> "c" [] c = "D" -> "d"
      [] c = "E" -> "e" [] c = "F" -> "f" [] c = "G" -> "g" [] c = "H" -> "h"
      [] c = "I" -> "i" [] c = "J" -> "j" [] c = "K" -> "k" [] c = "L" -> "l"
      [] c = "M" -> "m" [] c = "N" -> "n" [] c = "O" -> "o" [] c = "P" -> "p"
      [] c = "Q" -> "q" [] c = "R" -> "r" [] c = "S" -> "s" [] c = "T" -> "t"
      [] c = "U" -> "u" [] c = "V" -> "v" [] c = "W" -> "w" [] c = "X" -> "x"
      [] c = "Y" -> "y" [] c = "Z" -> "z" [] OTHER -> c

\* str.lower()
Lower(s) == [i \in 1..Len(s) |-> LowerChar(s[i])]

\* The index of the last '.' of s, 0 when s has none.
LastDot(s) ==
    LET dots == {i \in 1..Len(s) : s[i] = "."}
    IN IF dots = {} THEN 0 ELSE CHOOSE i \in dots : \A j \in dots : j <= i

\* s.rsplit('.', maxsplit=1): a list of one or two strings.
RSplit1(s) ==
    IF LastDot(s) = 0 THEN <<s>>
    ELSE <<SubSeq(s, 1, LastDot(s) - 1), SubSeq(s, LastDot(s) + 1, Len(s))>>

\* s.rsplit('.', maxsplit=1)[-1]
LastSegment(s) == RSplit1(s)[Len(RSplit1(s))]

(***************************************************************************)
(* Syntax-tree nodes: [type, id, value].  For an Assign or AnnAssign, id   *)
(* is the target name; for an Expr, value is the expression node; for a    *)
(* Constant, value is the Python constant; for a FunctionDef, value is the *)
(* first statement of its body.                                            *)
(***************************************************************************)
Node(t, i, v) == [type |-> t, id |-> i, value |-> v]
Leaf(t) == Node(t, <<>>, NoneV)
Constant(v) == Node("Constant", <<>>, v)
Name(i) == Node("Name", i, NoneV)
Assign(i, v) == Node("Assign", i, Constant(Str(v)))
AnnAssign(i) == Node("AnnAssign", i, NoneV)
Expr(n) == Node("Expr", <<>>, n)
StrExpr(s) == Expr(Constant(Str(s)))
FunctionDef(i, doc) == Node("FunctionDef", i, StrExpr(doc))

\* The node types that have a .value attribute holding a constant.
HasValueAttr(n) == n.type = "Constant"

\* ast.iter_child_nodes(n), in field order.
ChildNodes(n) ==
    CASE n.type = "Assign" -> <<Name(n.id), n.value>>
      [] n.type = "AnnAssign" -> <<Name(n.id), Leaf("Name")>>
      [] n.type = "Expr" -> <<n.value>>
      [] n.type = "FunctionDef" -> <<Leaf("arguments"), n.value>>
      [] n.type = "Name" -> <<Leaf("Load")>>
      [] n.type = "Call" -> <<Leaf("Name")>>
      [] n.type = "arguments" -> <<Leaf("arg")>>
      [] OTHER -> <<>>

RECURSIVE WalkQueue(_)
\* ast.walk: pop the first node of the queue, append its children.
WalkQueue(queue) ==
    IF queue = <<>> THEN <<>>
    ELSE <<Head(queue)>> \o WalkQueue(Tail(queue) \o ChildNodes(Head(queue)))

\* ast.walk(ast.parse(source of the class)): the Module, the ClassDef, then
\* the ClassDef's children (bases, body, decorators), then theirs.
AstWalk(cls) ==
    <<Leaf("Module"), Leaf("ClassDef")>>
        \o WalkQueue([i \in 1..cls.nbases |-> Leaf("Name")]
                     \o cls.body
                     \o [i \in 1..cls.ndecorators |-> Leaf("Name")])

\* str(cast(ast.Constant, node.value).value) of an Expr statement.
ExprDocstring(node) ==
    IF HasValueAttr(node.value) THEN Str(PyStr(node.value.value))
    ELSE Raise("AttributeError")

\* utils.get_annotation_docstring
get_annotation_docstring(cls, annotation_name) ==
    LET walk == AstWalk(cls)
        hits == {i \in 1..Len(walk) :
                    walk[i].type = "AnnAssign" /\ walk[i].id = annotation_name}
    IN IF hits = {} THEN NoneV
       ELSE LET i == CHOOSE h \in hits : \A j \in hits : h <= j
            IN IF i = Len(walk) THEN NoneV
               ELSE IF walk[i + 1].type = "Expr" THEN ExprDocstring(walk[i + 1])
               ELSE NoneV

RECURSIVE EnumScan(_, _, _)
\* The loop of get_enum_member_docstring over node.body, from index i.
EnumScan(body, enum_member, i) ==
    IF i > Len(body) THEN NoneV
    ELSE IF body[i].type = "Assign" /\ body[i].id = enum_member
         THEN IF i + 1 > Len(body) THEN Raise("IndexError")
              ELSE IF body[i + 1].type = "Expr" THEN ExprDocstring(body[i + 1])
              ELSE EnumScan(body, enum_member, i + 1)
         ELSE EnumScan(body, enum_member, i + 1)

\* utils.get_enum_member_docstring
get_enum_member_docstring(cls, enum_member) == EnumScan(cls.body, enum_member, 1)

\* The public entries of enum_class.__dict__ as (name, member value), in
\* declaration order: one per assignment of the class body.
EnumDict(cls) ==
    LET F[i \in 0..Len(cls.body)] ==
            IF i = 0 THEN <<>>
            ELSE IF cls.body[i].type = "Assign"
                 THEN Append(F[i - 1], <<cls.body[i].id, cls.body[i].value.value[2]>>)
                 ELSE F[i - 1]
    IN F[Len(cls.body)]

RECURSIVE EnumValuesLoop(_, _, _, _)
\* The loop of get_enum_values over the items of __dict__, from index i.
EnumValuesLoop(cls, items, i, acc) ==
    IF i > Len(items) THEN List(acc)
    ELSE IF StartsWith(items[i][1], <<"_">>) THEN EnumValuesLoop(cls, items, i + 1, acc)
    ELSE LET docstring == get_enum_member_docstring(cls, items[i][1])
         IN IF IsRaise(docstring) THEN docstring
            ELSE IF Truthy(docstring)
                 THEN EnumValuesLoop(cls, items, i + 1,
                                     Append(acc, <<items[i][2], docstring[2]>>))
                 ELSE EnumValuesLoop(cls, items, i + 1, acc)

\* utils.get_enum_values
get_enum_values(cls) == EnumValuesLoop(cls, EnumDict(cls), 1, <<>>)

(***************************************************************************)
(* Type annotations, as tagged tuples:                                     *)
(*   <<"class", module, qualname>>     a class (NoneType is one)           *)
(*   <<"enum", module, qualname>>      a subclass of enum.Enum             *)
(*   <<"UnionType", args>>             X | Y of two classes                *)
(*   <<"Union", args>>                 typing.Union[...] / Optional[...]   *)
(*   <<"Annotated", origin, metadata>> typing.Annotated[origin, ...]       *)
(*   <<"Literal", values>>             typing.Literal['a', ...]            *)
(*   <<"GenericAlias", origin, args>>  list[str]                           *)
(* and NoneV for a field without annotation.                               *)
(***************************************************************************)
BUILTINS == <<"b", "u", "i", "l", "t", "i", "n", "s">>

ClassT(module, qualname) == <<"class", module, qualname>>
EnumT(module, qualname) == <<"enum", module, qualname>>
NoneType == ClassT(BUILTINS, <<"N", "o", "n", "e", "T", "y", "p", "e">>)
UnionTypeT(args) == <<"UnionType", args>>
UnionT(args) == <<"Union", args>>
AnnotatedT(origin, metadata) == <<"Annotated", origin, metadata>>
LiteralT(values) == <<"Literal", values>>
GenericAliasT(origin, args) == <<"GenericAlias", origin, args>>

IsClass(t) == t[1] \in {"class", "enum"}

\* ", ".join(parts)
JoinWith(parts, sep) ==
    LET F[i \in 0..Len(parts)] ==
            IF i = 0 THEN <<>>
            ELSE IF i = 1 THEN parts[1]
            ELSE F[i - 1] \o sep \o parts[i]
    IN F[Len(parts)]

\* module.qualname, or the bare qualname for a builtin.
QualPath(t) == IF t[2] = BUILTINS THEN t[3] ELSE t[2] \o <<".">> \o t[3]

RECURSIVE TypeText(_, _)
\* str(t) when asStr, else the text t takes inside another type's str
\* (typing._type_repr, and the repr of the members of X | Y).
TypeText(t, asStr) ==
    LET CLASS_OPEN == <<"<", "c", "l", "a", "s", "s", " ", "'">>
        ENUM_OPEN == <<"<", "e", "n", "u", "m", " ", "'">>
        REPR_CLOSE == <<"'", ">">>
        TYPING_OPTIONAL == <<"t", "y", "p", "i", "n", "g", ".", "O", "p", "t", "i", "o", "n", "a", "l", "[">>
        TYPING_UNION == <<"t", "y", "p", "i", "n", "g", ".", "U", "n", "i", "o", "n", "[">>
        TYPING_LITERAL == <<"t", "y", "p", "i", "n", "g", ".", "L", "i", "t", "e", "r", "a", "l", "[">>
        TYPING_ANNOTATED == <<"t", "y", "p", "i", "n", "g", ".", "A", "n", "n", "o", "t", "a", "t", "e", "d", "[">>
    IN
    CASE t[1] = "None" -> NONE_STR
      [] t[1] = "class" ->
            IF asStr THEN CLASS_OPEN \o QualPath(t) \o REPR_CLOSE ELSE QualPath(t)
      [] t[1] = "enum" ->
            IF asStr THEN ENUM_OPEN \o t[3] \o REPR_CLOSE ELSE QualPath(t)
      [] t[1] = "UnionType" ->
            JoinWith([i \in 1..Len(t[2]) |->
                         IF t[2][i] = NoneType THEN NONE_STR
                         ELSE TypeText(t[2][i], FALSE)],
                     <<" ", "|", " ">>)
      [] t[1] = "Union" ->
            IF Len(t[2]) = 2 /\ t[2][2] = NoneType
            THEN TYPING_OPTIONAL \o TypeText(t[2][1], FALSE) \o <<"]">>
            ELSE IF Len(t[2]) = 2 /\ t[2][1] = NoneType
            THEN TYPING_OPTIONAL \o TypeText(t[2][2], FALSE) \o <<"]">>
            ELSE TYPING_UNION
                 \o JoinWith([i \in 1..Len(t[2]) |-> TypeText(t[2][i], FALSE)],
                             <<",", " ">>)
                 \o <<"]">>
      [] t[1] = "Annotated" ->
            \* the metadata objects are shown by their class name only
            TYPING_ANNOTATED
            \o JoinWith(<<TypeText(t[2], FALSE)>>
                        \o [i \in 1..Len(t[3]) |-> t[3][i][1]],
                        <<",", " ">>)
            \o <<"]">>
      [] t[1] = "Literal" ->
            TYPING_LITERAL
            \o JoinWith([i \in 1..Len(t[2]) |-> <<"'">> \o t[2][i] \o <<"'">>],
                        <<",", " ">>)
            \o <<"]">>
      [] t[1] = "GenericAlias" ->
            t[2] \o <<"[">>
            \o JoinWith([i \in 1..Len(t[3]) |-> TypeText(t[3][i], FALSE)],
                        <<",", " ">>)
            \o <<"]">>
      [] t[1] = "str" -> t[2]

\* str(t); a str is its own text.
TypeStr(t) == TypeText(t, TRUE)

(***************************************************************************)
(* The regular expressions of utils.py.                                    *)
(***************************************************************************)
Range(s) == {s[i] : i \in 1..Len(s)}

\* [A-Za-z_]
IsIdentStart(c) ==
    LET UPPER ==
            <<"A", "B", "C", "D", "E", "F", "G", "H", "I", "J", "K", "L", "M",
              "N", "O", "P", "Q", "R", "S", "T", "U", "V", "W", "X", "Y", "Z">>
        LOWER ==
            <<"a", "b", "c", "d", "e", "f", "g", "h", "i", "j", "k", "l", "m",
              "n", "o", "p", "q", "r", "s", "t", "u", "v", "w", "x", "y", "z">>
    IN c \in Range(UPPER) \cup Range(LOWER) \cup {"_"}

\* \w
IsWordChar(c) ==
    IsIdentStart(c) \/ c \in {"0", "1", "2", "3", "4", "5", "6", "7", "8", "9"}

\* \b in front of s[i]
WordStartsAt(s, i) == IsWordChar(s[i]) /\ (i = 1 \/ ~IsWordChar(s[i - 1]))

RECURSIVE WordEnd(_, _)
\* The last index of the run of \w that holds s[i].
WordEnd(s, i) ==
    IF i < Len(s) /\ IsWordChar(s[i + 1]) THEN WordEnd(s, i + 1) ELSE i

RECURSIVE LastIdent(_, _)
\* For the longest chain ident(.ident)* that starts at i: the start of its
\* last identifier.
LastIdent(s, i) ==
    LET e == WordEnd(s, i)
    IN IF e + 2 <= Len(s) /\ s[e + 1] = "." /\ IsIdentStart(s[e + 2])
       THEN LastIdent(s, e + 2)
       ELSE i

RECURSIVE SubModulePrefix(_, _)
\* re.sub(MODULE_PREFIX_EXPR, r"\1", s) from index i on: every maximal
\* dotted chain of two or more identifiers becomes its last identifier.
SubModulePrefix(s, i) ==
    IF i > Len(s) THEN <<>>
    ELSE IF WordStartsAt(s, i) /\ IsIdentStart(s[i]) /\ LastIdent(s, i) > i
    THEN SubSeq(s, LastIdent(s, i), WordEnd(s, LastIdent(s, i)))
         \o SubModulePrefix(s, WordEnd(s, LastIdent(s, i)) + 1)
    ELSE <<s[i]>> \o SubModulePrefix(s, i + 1)

\* The least index >= i of s that holds c, 0 when there is none.
IndexFrom(s, c, i) ==
    LET hits == {j \in i..Len(s) : s[j] = c}
    IN IF hits = {} THEN 0 ELSE CHOOSE j \in hits : \A k \in hits : j <= k

\* re.match(TYPE_STR_EXPR, s): group(1), or NoneV when s does not start
\* with <word 'text'>.
MatchTypeStr(s) ==
    LET sp == IndexFrom(s, " ", 1)
        q == IndexFrom(s, "'", sp + 2)
    IN IF Len(s) >= 1 /\ s[1] = "<" /\ sp >= 3 /\ sp + 1 <= Len(s)
          /\ s[sp + 1] = "'" /\ q > sp + 2 /\ q + 1 <= Len(s) /\ s[q + 1] = ">"
       THEN Str(SubSeq(s, sp + 2, q - 1))
       ELSE NoneV

\* utils.format_type_string
format_type_string(type_str) ==
    IF IsNone(type_str) THEN <<>>
    ELSE IF IsNone(MatchTypeStr(TypeStr(type_str)))
         THEN SubModulePrefix(TypeStr(type_str), 1)
         ELSE LastSegment(MatchTypeStr(TypeStr(type_str))[2])

(***************************************************************************)
(* The classes the directives are run on.  A class is a record:            *)
(*   name, module   its qualified name                                     *)
(*   kind           "model" (subclass of pydantic.BaseModel), "enum",      *)
(*                  "plain" (any other class), "value" (not a class)       *)
(*   doc            __doc__                                                *)
(*   nbases, ndecorators, body   its source, as the syntax tree shows it   *)
(*   fields         model_fields, in declaration order (inherited first)   *)
(*   mro            the names of the classes of __mro__, without object    *)
(*                  and pydantic.BaseModel                                 *)
(* A field (pydantic FieldInfo) is a record: name, alias, description,     *)
(* examples, deprecated, annotation.                                       *)
(***************************************************************************)
Field(n, al, de, ex, dp, an) ==
    [name |-> n, alias |-> al, description |-> de, examples |-> ex,
     deprecated |-> dp, annotation |-> an]

Class(n, k, d, nb, nd, b, f, m) ==
    [name |-> n, module |-> <<"m">>, kind |-> k, doc |-> d, nbases |-> nb,
     ndecorators |-> nd, body |-> b, fields |-> f, mro |-> m]

IntT == ClassT(BUILTINS, <<"i", "n", "t">>)
StrT == ClassT(BUILTINS, <<"s", "t", "r">>)
KT == ClassT(<<"m">>, <<"K">>)
ET == EnumT(<<"m">>, <<"E">>)
\* Annotated[str, AfterValidator(..), BeforeValidator(..), Field(description, examples)]
TEST_TYPE ==
    AnnotatedT(StrT, << <<"AfterValidator">>, <<"BeforeValidator">>,
                        <<"FieldInfo", Str(<<"t", "d">>),
                          List(<< <<"s", "1">>, <<"s", "2">> >>)>> >>)

\* class E(enum.Enum): two documented members
EnumE ==
    Class(<<"E">>, "enum", Str(<<"e", "d">>), 1, 0,
          <<StrExpr(<<"e", "d">>), Assign(<<"V", "1">>, <<"v", "1">>), StrExpr(<<"d", "1">>),
            Assign(<<"V", "2">>, <<"v", "2">>), StrExpr(<<"d", "2">>)>>,
          <<>>, <<>>)

\* class B(enum.Enum): the last member has no docstring
EnumB ==
    Class(<<"B">>, "enum", NoneV, 1, 0,
          <<Assign(<<"V", "1">>, <<"v", "1">>), StrExpr(<<"d", "1">>),
            Assign(<<"V", "2">>, <<"v", "2">>)>>,
          <<>>, <<>>)

\* class M(pydantic.BaseModel): the fields of the unit tests' MockFieldModel,
\* and a field w under an indented docstring of two lines, its example
\* a mapping of two keys
ModelM ==
    Class(<<"M">>, "model", Str(<<"m", "d">>), 1, 0,
          <<StrExpr(<<"m", "d">>),
            AnnAssign(<<"f">>),
            AnnAssign(<<"x">>),
            AnnAssign(<<"u">>), StrExpr(<<"u", "d">>),
            AnnAssign(<<"e">>),
            AnnAssign(<<"e", "u">>),
            AnnAssign(<<"t", "u">>),
            AnnAssign(<<"w">>), StrExpr(<<"\n", " ", " ", "p", "\n", " ", " ", " ", "q", "\n", " ", " ">>)>>,
          <<Field(<<"f">>, Str(<<"t", "e", "s", "t">>), Str(<<"d", "f">>), NoneV,
                  Str(<<"e", "w", ".">>), IntT),
            Field(<<"x">>, NoneV, Str(<<"d", "x">>),
                  List(<< <<"e", "1">>, <<"e", "2">> >>), NoneV, IntT),
            Field(<<"u">>, NoneV, Str(<<"m", "u">>), NoneV, NoneV,
                  UnionTypeT(<<StrT, NoneType>>)),
            Field(<<"e">>, NoneV, NoneV, NoneV, NoneV, ET),
            Field(<<"e", "u">>, NoneV, NoneV, NoneV, NoneV,
                  UnionTypeT(<<ET, NoneType>>)),
            Field(<<"t", "u">>, NoneV, NoneV, NoneV, NoneV,
                  UnionT(<<TEST_TYPE, NoneType>>)),
            Field(<<"w">>, NoneV, NoneV,
                  List(<< <<"{", "b", ":", " ", "x", ",", " ", "a", ":", " ", "[", "z", ",", " ", "w", "]", "}">> >>),
                  NoneV, IntT)>>,
          << <<"M">> >>)

\* class D(pydantic.BaseModel): one field per deprecation marker
ModelD ==
    Class(<<"D">>, "model", NoneV, 1, 0,
          <<AnnAssign(<<"a">>),
            AnnAssign(<<"b">>),
            AnnAssign(<<"c">>),
            AnnAssign(<<"d">>),
            AnnAssign(<<"m", "o", "d", "e", "l", "_", "x">>),
            AnnAssign(<<"A">>)>>,
          <<Field(<<"a">>, NoneV, NoneV, NoneV, NoneV, IntT),
            Field(<<"b">>, NoneV, NoneV, NoneV, Bool(FALSE), IntT),
            Field(<<"c">>, NoneV, NoneV, NoneV, Bool(TRUE), IntT),
            Field(<<"d">>, NoneV, NoneV, NoneV, Str(<<>>), IntT),
            Field(<<"m", "o", "d", "e", "l", "_", "x">>, NoneV, NoneV, NoneV, NoneV, IntT),
            Field(<<"A">>, Str(<<>>), NoneV, NoneV, NoneV, StrT)>>,
          << <<"D">> >>)

\* class O(pydantic.BaseModel): the ways to write "T or None"
ModelO ==
    Class(<<"O">>, "model", NoneV, 1, 0,
          <<AnnAssign(<<"o", "1">>),
            AnnAssign(<<"o", "2">>),
            AnnAssign(<<"o", "3">>),
            AnnAssign(<<"o", "4">>),
            AnnAssign(<<"o", "5">>),
            AnnAssign(<<"o", "6">>)>>,
          <<Field(<<"o", "1">>, NoneV, NoneV, NoneV, NoneV, UnionTypeT(<<IntT, NoneType>>)),
            Field(<<"o", "2">>, NoneV, NoneV, NoneV, NoneV, UnionTypeT(<<KT, NoneType>>)),
            Field(<<"o", "3">>, NoneV, NoneV, NoneV, NoneV, UnionTypeT(<<NoneType, IntT>>)),
            Field(<<"o", "4">>, NoneV, NoneV, NoneV, NoneV, UnionT(<<IntT, NoneType>>)),
            Field(<<"o", "5">>, NoneV, NoneV, NoneV, NoneV, UnionT(<<KT, NoneType>>)),
            Field(<<"o", "6">>, NoneV, NoneV, NoneV, NoneV,
                  UnionT(<<LiteralT(<< <<"a">>, <<"b">> >>), NoneType>>))>>,
          << <<"O">> >>)

\* class X(pydantic.BaseModel): a plain field, then a field of enum B
ModelX ==
    Class(<<"X">>, "model", NoneV, 1, 0,
          <<AnnAssign(<<"a">>), AnnAssign(<<"x">>)>>,
          <<Field(<<"a">>, NoneV, NoneV, NoneV, NoneV, IntT),
            Field(<<"x">>, NoneV, NoneV, NoneV, NoneV, EnumT(<<"m">>, <<"B">>))>>,
          << <<"X">> >>)

\* class W(pydantic.BaseModel): the sources of a description (f: a docstring,
\* g: the field's metadata, neither for the others) against the wrappers of
\* the type: a plain class, Optional[TEST_TYPE], enum E bare and as E | None,
\* Optional[Annotated[E, Field()]] and Optional[E]
ModelW ==
    Class(<<"W">>, "model", NoneV, 1, 0,
          <<AnnAssign(<<"f", "1">>), StrExpr(<<"d", "s">>),
            AnnAssign(<<"f", "2">>), StrExpr(<<"d", "s">>),
            AnnAssign(<<"f", "3">>), StrExpr(<<"d", "s">>),
            AnnAssign(<<"g", "2">>),
            AnnAssign(<<"g", "3">>),
            AnnAssign(<<"x", "2">>),
            AnnAssign(<<"h", "4">>),
            AnnAssign(<<"h", "5">>)>>,
          <<Field(<<"f", "1">>, NoneV, Str(<<"d", "m">>), NoneV, NoneV, IntT),
            Field(<<"f", "2">>, NoneV, Str(<<"d", "m">>), NoneV, NoneV,
                  UnionT(<<TEST_TYPE, NoneType>>)),
            Field(<<"f", "3">>, NoneV, NoneV, NoneV, NoneV, ET),
            Field(<<"g", "2">>, NoneV, Str(<<"d", "m">>), NoneV, NoneV,
                  UnionT(<<TEST_TYPE, NoneType>>)),
            Field(<<"g", "3">>, NoneV, Str(<<"d", "m">>), NoneV, NoneV,
                  UnionTypeT(<<ET, NoneType>>)),
            Field(<<"x", "2">>, NoneV, NoneV, List(<< <<"e", "1">> >>), NoneV,
                  UnionT(<<TEST_TYPE, NoneType>>)),
            Field(<<"h", "4">>, NoneV, NoneV, NoneV, NoneV,
                  UnionT(<<AnnotatedT(ET, << <<"FieldInfo", NoneV, NoneV>> >>), NoneType>>)),
            Field(<<"h", "5">>, NoneV, NoneV, NoneV, NoneV,
                  UnionT(<<ET, NoneType>>))>>,
          << <<"W">> >>)

\* class P(pydantic.BaseModel): the parent, which declares a and b
ModelP ==
    Class(<<"P">>, "model", NoneV, 1, 0,
          <<AnnAssign(<<"a">>), StrExpr(<<"p", "a">>),
            AnnAssign(<<"b">>), StrExpr(<<"p", "b">>)>>,
          <<Field(<<"a">>, NoneV, NoneV, NoneV, NoneV, IntT),
            Field(<<"b">>, NoneV, NoneV, NoneV, NoneV, IntT)>>,
          << <<"P">> >>)

\* class N: a mixin that is not a model and annotates a
PlainN ==
    Class(<<"N">>, "plain", NoneV, 0, 0,
          <<AnnAssign(<<"a">>), StrExpr(<<"n", "a">>)>>, <<>>, << <<"N">> >>)

\* class C(N, P): redeclares b, declares c, inherits a
ModelC ==
    Class(<<"C">>, "model", NoneV, 2, 0,
          <<AnnAssign(<<"b">>), StrExpr(<<"c", "b">>),
            AnnAssign(<<"c">>)>>,
          <<Field(<<"a">>, NoneV, NoneV, NoneV, NoneV, IntT),
            Field(<<"b">>, NoneV, NoneV, NoneV, NoneV, IntT),
            Field(<<"c">>, NoneV, NoneV, NoneV, NoneV, IntT)>>,
          << <<"C">>, <<"N">>, <<"P">> >>)

\* class G(C): declares nothing of its own
ModelG ==
    Class(<<"G">>, "model", NoneV, 1, 0,
          <<Leaf("Pass")>>,
          <<Field(<<"a">>, NoneV, NoneV, NoneV, NoneV, IntT),
            Field(<<"b">>, NoneV, NoneV, NoneV, NoneV, IntT),
            Field(<<"c">>, NoneV, NoneV, NoneV, NoneV, IntT)>>,
          << <<"G">>, <<"C">>, <<"N">>, <<"P">> >>)

\* class K: not a model
PlainK == Class(<<"K">>, "plain", NoneV, 0, 0, <<AnnAssign(<<"a">>)>>, <<>>, <<>>)

\* v = 1: a module attribute that is not a class
ValueV == Class(<<"v">>, "value", NoneV, 0, 0, <<>>, <<>>, <<>>)

\* The attributes of module m.
Classes ==
    {EnumE, EnumB, ModelM, ModelD, ModelO, ModelX, ModelW, ModelP, PlainN, ModelC,
     ModelG, PlainK, ValueV}

\* The modules importlib.import_module finds.
Modules == {<<"m">>}

ClassNamed(n) == CHOOSE c \in Classes : c.name = n

\* The class an annotation names.
ClassOf(t) == ClassNamed(t[3])

\* model.model_fields
FieldNames(cls) == {cls.fields[i].name : i \in 1..Len(cls.fields)}

FieldOf(cls, n) == cls.fields[CHOOSE i \in 1..Len(cls.fields) : cls.fields[i].name = n]

\* cls.__annotations__: the names the class body annotates.
Annotations(cls) ==
    {cls.body[i].id : i \in {j \in 1..Len(cls.body) : cls.body[j].type = "AnnAssign"}}

(***************************************************************************)
(* utils.py                                                                *)
(***************************************************************************)
GENERIC_DEPRECATED == <<"T", "h", "i", "s", " ", "k", "e", "y", " ", "i", "s", " ", "d", "e", "p", "r", "e", "c", "a", "t", "e", "d", ".">>
DEPRECATED_PREFIX == <<"D", "e", "p", "r", "e", "c", "a", "t", "e", "d", ".", " ">>

\* The message is_deprecated makes of the field's `deprecated` parameter.
DeprecationOf(warning) ==
    IF Truthy(warning)
    THEN IF IsStr(warning) THEN Str(DEPRECATED_PREFIX \o warning[2])
         ELSE Str(GENERIC_DEPRECATED)
    ELSE warning

\* utils.is_deprecated
is_deprecated(model, field) ==
    IF field \notin Annotations(model) THEN Raise("ValueError")
    ELSE DeprecationOf(FieldOf(model, field).deprecated)

RECURSIVE MroLookup_any_class(_, _, _)
\* A loop that takes the first class that annotates field_name, model or not.
MroLookup_any_class(model, field_name, i) ==
    IF i > Len(model.mro) THEN <<"ok", model>>
    ELSE IF field_name \in Annotations(ClassNamed(model.mro[i]))
         THEN <<"ok", ClassNamed(model.mro[i])>>
         ELSE MroLookup_any_class(model, field_name, i + 1)

RECURSIVE MroLookup(_, _, _)
\* The loop over __mro__: the first class that is a model and annotates
\* field_name; the model itself when the loop ends without one.
MroLookup(model, field_name, i) ==
    IF i > Len(model.mro) THEN <<"ok", model>>
    ELSE IF /\ ClassNamed(model.mro[i]).kind = "model"
            /\ field_name \in Annotations(ClassNamed(model.mro[i]))
         THEN <<"ok", ClassNamed(model.mro[i])>>
         ELSE MroLookup(model, field_name, i + 1)

\* utils.get_pydantic_model: <<"ok", class>>, or the exception raised.
get_pydantic_model(py_module, model_name, field_name) ==
    LET model_path == IF Len(py_module) > 0 THEN py_module \o <<".">> \o model_name
                      ELSE model_name
        parts == RSplit1(model_path)
        module_str == parts[1]
        class_str == parts[2]
    IN IF Len(parts) # 2 THEN Raise("ValueError")
       ELSE IF module_str = <<>> THEN Raise("ValueError")
       ELSE IF module_str[1] = "." THEN Raise("TypeError")
       ELSE IF module_str \notin Modules THEN Raise("ImportError")
       ELSE IF ~\E c \in Classes : c.name = class_str THEN Raise("AttributeError")
       ELSE IF ClassNamed(class_str).kind # "model" THEN Raise("TypeError")
       ELSE IF Len(field_name) > 0
            THEN IF field_name \notin FieldNames(ClassNamed(class_str))
                 THEN Raise("AttributeError")
                 ELSE MroLookup(ClassNamed(class_str), field_name, 1)
            ELSE <<"ok", ClassNamed(class_str)>>

\* A scan that stops at the first FieldInfo of the metadata.
find_fieldinfo_first(metadata) ==
    LET Scan(elements) ==
            LET F[i \in 0..Len(elements)] ==
                    IF i = 0 THEN NoneV
                    ELSE IF ~IsNone(F[i - 1]) THEN F[i - 1]
                    ELSE IF elements[i][1] = "FieldInfo" THEN elements[i]
                    ELSE NoneV
            IN F[Len(elements)]
    IN IF Truthy(metadata) THEN Scan(metadata[2]) ELSE NoneV

\* utils.find_fieldinfo: metadata is None or a tuple; result is assigned at
\* every FieldInfo the loop meets, so the last one stays.
find_fieldinfo(metadata) ==
    LET Scan(elements) ==
            LET F[i \in 0..Len(elements)] ==
                    IF i = 0 THEN NoneV
                    ELSE IF elements[i][1] = "FieldInfo" THEN elements[i]
                    ELSE F[i - 1]
            IN F[Len(elements)]
    IN IF Truthy(metadata) THEN Scan(metadata[2]) ELSE NoneV

\* utils.is_enum_type
is_enum_type(annotation) == annotation[1] = "enum"

(***************************************************************************)
(* base.py: the state of a directive (the entry of the field being         *)
(* rendered) and the node builder.                                         *)
(***************************************************************************)
\* KitbashDirective.__init__: the default value of every entry attribute.
InitialFields ==
    [field_name |-> <<>>, field_alias |-> <<>>, field_description |-> NoneV,
     field_examples |-> NoneV, field_type |-> NoneV, field_values |-> <<>>,
     deprecation_warning |-> NoneV, label |-> <<>>, exc |-> "none"]

Raised(self) == self.exc # "none"

IsBlank(s) == \A i \in 1..Len(s) : s[i] \in {" ", "\n"}

\* KitbashDirective._parse_rst_description: the nodes docutils makes of the
\* text, one block for a text that is not blank.
ParseRst(rst) == IF IsBlank(rst) THEN <<>> ELSE << <<"rst", rst>> >>

\* The least index >= i at which pat occurs in s, 0 when there is none.
Find(s, pat, i) ==
    LET hits == {j \in i..(Len(s) - Len(pat) + 1) : SubSeq(s, j, j + Len(pat) - 1) = pat}
    IN IF hits = {} THEN 0 ELSE CHOOSE j \in hits : \A k \in hits : j <= k

LITERAL_OPEN == <<"L", "i", "t", "e", "r", "a", "l", "[">>

\* re.search(LITERAL_LIST_EXPR, s).group(1): the text between the first
\* "Literal[" and the first "]" after it; NoneV when there is no match.
SearchLiteralList(s) ==
    LET o == Find(s, LITERAL_OPEN, 1)
        c == IF o = 0 THEN 0 ELSE IndexFrom(s, "]", o + Len(LITERAL_OPEN))
    IN IF o = 0 \/ c = 0 THEN NoneV
       ELSE Str(SubSeq(s, o + Len(LITERAL_OPEN), c - 1))

RECURSIVE FindAllItems(_, _)
\* re.findall(LIST_ITEM_EXPR, s) from index i on: the texts between
\* successive pairs of quotes.
FindAllItems(s, i) ==
    LET o == IndexFrom(s, "'", i)
        c == IF o = 0 THEN 0 ELSE IndexFrom(s, "'", o + 1)
    IN IF o = 0 \/ c = 0 THEN <<>>
       ELSE <<SubSeq(s, o + 1, c - 1)>> \o FindAllItems(s, c + 1)

\* str(list_of_str): "['a', 'b']"
ListRepr(items) ==
    <<"[">> \o JoinWith([i \in 1..Len(items) |-> <<"'">> \o items[i] \o <<"'">>],
                        <<",", " ">>) \o <<"]">>

\* The paragraph under the Type header.
TypeLine(field_type) ==
    IF IsNone(SearchLiteralList(field_type))
    THEN <<"paragraph", <<"literal", field_type>>>>
    ELSE <<"paragraph", <<"Text", "One of: ">>,
           <<"literal", ListRepr(FindAllItems(SearchLiteralList(field_type)[2], 1))>>>>

Header(text) == <<"paragraph", <<"strong", text>>>>

\* A table whose body rows are in the reverse of the order of the pairs.
create_table_node_last_pair_first(self) ==
    <<"container",
      [cols |-> 2,
       thead |-> << <<"Value", "Description">> >>,
       tbody |-> [i \in 1..Len(self.field_values) |->
                    << <<"literal", self.field_values[Len(self.field_values) + 1 - i][1]>>,
                       ParseRst(self.field_values[Len(self.field_values) + 1 - i][2]) >>]]>>

\* KitbashDirective._create_table_node
create_table_node(self) ==
    <<"container",
      [cols |-> 2,
       thead |-> << <<"Value", "Description">> >>,
       tbody |-> [i \in 1..Len(self.field_values) |->
                    << <<"literal", self.field_values[i][1]>>,
                       ParseRst(self.field_values[i][2]) >>]]>>

\* s.rstrip("\n")
RECURSIVE RStripNewlines(_)
RStripNewlines(s) ==
    IF Len(s) > 0 /\ s[Len(s)] = "\n" THEN RStripNewlines(SubSeq(s, 1, Len(s) - 1))
    ELSE s

\* s.removesuffix(suffix)
RemoveSuffix(s, suffix) ==
    IF Len(s) >= Len(suffix) /\ SubSeq(s, Len(s) - Len(suffix) + 1, Len(s)) = suffix
    THEN SubSeq(s, 1, Len(s) - Len(suffix))
    ELSE s

(***************************************************************************)
(* Text helpers.                                                           *)
(***************************************************************************)
RECURSIVE Split(_, _)
\* s.split(sep) for a one-character separator.
Split(s, sep) ==
    IF IndexFrom(s, sep, 1) = 0 THEN <<s>>
    ELSE <<SubSeq(s, 1, IndexFrom(s, sep, 1) - 1)>>
         \o Split(SubSeq(s, IndexFrom(s, sep, 1) + 1, Len(s)), sep)

IsSpace(c) == c \in {" ", "\n"}

RECURSIVE LStrip(_)
\* s.lstrip()
LStrip(s) == IF Len(s) > 0 /\ IsSpace(s[1]) THEN LStrip(Tail(s)) ELSE s

RECURSIVE RStrip(_)
\* s.rstrip()
RStrip(s) ==
    IF Len(s) > 0 /\ IsSpace(s[Len(s)]) THEN RStrip(SubSeq(s, 1, Len(s) - 1)) ELSE s

\* s.strip()
Strip(s) == LStrip(RStrip(s))

RECURSIVE DropTrailingEmpty(_)
DropTrailingEmpty(lines) ==
    IF Len(lines) > 0 /\ lines[Len(lines)] = <<>>
    THEN DropTrailingEmpty(SubSeq(lines, 1, Len(lines) - 1))
    ELSE lines

RECURSIVE DropLeadingEmpty(_)
DropLeadingEmpty(lines) ==
    IF Len(lines) > 0 /\ lines[1] = <<>> THEN DropLeadingEmpty(Tail(lines)) ELSE lines

\* inspect.cleandoc: strip the first line, take the least indentation of
\* the non-blank later lines off every later line, drop the empty lines at
\* both ends.
Cleandoc(doc) ==
    LET lines == Split(doc, "\n")
        indents == {Len(lines[i]) - Len(LStrip(lines[i])) :
                       i \in {j \in 2..Len(lines) : Len(LStrip(lines[j])) > 0}}
        margin == IF indents = {} THEN 0
                  ELSE CHOOSE m \in indents : \A n \in indents : m <= n
        cut == [i \in 1..Len(lines) |->
                   IF i = 1 THEN LStrip(lines[1])
                   ELSE SubSeq(lines[i], margin + 1, Len(lines[i]))]
    IN JoinWith(DropLeadingEmpty(DropTrailingEmpty(cut)), <<"\n">>)

(***************************************************************************)
(* PyYAML, on the part of YAML the examples are written in: plain scalars  *)
(* that resolve to str, flow sequences and flow mappings on one line, and  *)
(* the block style yaml.dump writes.  A loaded value is <<"str", s>>,      *)
(* <<"seq", items>> or <<"map", pairs>>, the pairs <<key, value>> in the   *)
(* order of the dict.                                                      *)
(***************************************************************************)
\* The flow collection that s holds from its first character on: the value,
\* or Raise("YAMLError").
yaml_flow(s) ==
    LET Fail == <<Raise("YAMLError"), 0>>
        RECURSIVE Skip(_), ScalarEnd(_), Flow(_, _, _)
        Skip(i) == IF i <= Len(s) /\ s[i] = " " THEN Skip(i + 1) ELSE i
        \* The index after the plain scalar that starts at i.
        ScalarEnd(i) ==
            IF \/ i > Len(s)
               \/ s[i] \in {",", "[", "]", "{", "}"}
               \/ s[i] = ":" /\ (i = Len(s) \/ s[i + 1] \in {" ", ",", "]", "}"})
            THEN i ELSE ScalarEnd(i + 1)
        \* The collections that are open: <<"seq", items, <<>> >>, or
        \* <<"map", pairs, key>>, the key <<>> until one is read and <<k>>
        \* while its value is awaited.
        Pop(open) == SubSeq(open, 1, Len(open) - 1)
        Put(open, frame) == Append(Pop(open), frame)
        Scalar(j, e, open) ==
            IF e = j THEN Fail ELSE Flow(e, open, <<Str(RStrip(SubSeq(s, j, e - 1)))>>)
        \* A node starts at j.
        FlowAt(j, open) ==
            IF j > Len(s) THEN Fail
            ELSE IF s[j] = "[" THEN Flow(j + 1, Append(open, <<"seq", <<>>, <<>> >>), <<>>)
            ELSE IF s[j] = "{" THEN Flow(j + 1, Append(open, <<"map", <<>>, <<>> >>), <<>>)
            ELSE Scalar(j, ScalarEnd(j), open)
        \* An item, a key or the end of the collection is awaited at j.
        Await(j, open, top) ==
            IF top # <<>> /\ Len(top[3]) = 0 /\ j <= Len(s)
               /\ s[j] = (IF top[1] = "seq" THEN "]" ELSE "}")
            THEN Flow(j + 1, Pop(open), << <<top[1], top[2]>> >>)
            ELSE FlowAt(j, open)
        \* After an item or a value: a comma or the end of the collection.
        AfterEntry(j, open, kind, acc) ==
            IF j > Len(s) THEN Fail
            ELSE IF s[j] = "," THEN Flow(j + 1, Put(open, <<kind, acc, <<>> >>), <<>>)
            ELSE IF s[j] = (IF kind = "seq" THEN "]" ELSE "}")
                 THEN Flow(j + 1, Pop(open), << <<kind, acc>> >>)
            ELSE Fail
        \* After a key: the colon.
        MapColon(j, open, top, key) ==
            IF key[1] # "str" \/ j > Len(s) \/ s[j] # ":" THEN Fail
            ELSE Flow(j + 1, Put(open, <<"map", top[2], <<key[2]>> >>), <<>>)
        \* The node v ends before j.
        After(j, open, top, v) ==
            IF top[1] = "seq" THEN AfterEntry(j, open, "seq", Append(top[2], v))
            ELSE IF Len(top[3]) = 0 THEN MapColon(j, open, top, v)
            ELSE AfterEntry(j, open, "map", Append(top[2], <<top[3][1], v>>))
        \* From index i on, with the node that ended before i in done.
        Flow(i, open, done) ==
            IF Len(done) = 0
            THEN Await(Skip(i), open, IF open = <<>> THEN <<>> ELSE open[Len(open)])
            ELSE IF open = <<>> THEN <<done[1], i>>
            ELSE After(Skip(i), open, open[Len(open)], done[1])
        Whole(r) == IF IsRaise(r[1]) \/ Skip(r[2]) <= Len(s) THEN Raise("YAMLError") ELSE r[1]
    IN Whole(Flow(1, <<>>, <<>>))

RECURSIVE yaml_block(_)
\* The block node written on the lines ls, each <<indentation, text>>: a
\* block sequence, a block mapping, or one scalar or flow collection.
yaml_block(ls) ==
    LET ind == ls[1][1]
        heads == {k \in 1..Len(ls) : ls[k][1] = ind}
        head == [n \in 1..Cardinality(heads) |->
                    CHOOSE h \in heads : Cardinality({g \in heads : g < h}) = n - 1]
        \* The last line of the entry that starts on line k.
        Last(k) == IF \E h \in heads : h > k
                   THEN (CHOOSE h \in heads : h > k /\ \A g \in heads : g > k => h <= g) - 1
                   ELSE Len(ls)
        IsDash(c) == Len(c) >= 3 /\ c[1] = "-" /\ c[2] = " " /\ c[3] # " "
        KeySeps(c) == {p \in 1..Len(c) : c[p] = ":" /\ (p = Len(c) \/ c[p + 1] = " ")}
        Inline(t) ==
            IF t[1] \in {"[", "{"} THEN yaml_flow(t)
            ELSE IF KeySeps(t) # {} THEN Raise("YAMLError")
            ELSE Str(RStrip(t))
        Item(k) ==
            IF ~IsDash(ls[k][2]) THEN Raise("YAMLError")
            ELSE yaml_block(<< <<ind + 2, SubSeq(ls[k][2], 3, Len(ls[k][2]))>> >>
                            \o SubSeq(ls, k + 1, Last(k)))
        Pair(k, c, p) ==
            IF p = 1 THEN Raise("YAMLError")
            ELSE IF LStrip(SubSeq(c, p + 1, Len(c))) # <<>>
                 THEN IF Last(k) > k THEN Raise("YAMLError")
                      ELSE <<"pair", SubSeq(c, 1, p - 1),
                             Inline(LStrip(SubSeq(c, p + 1, Len(c))))>>
            ELSE IF Last(k) = k THEN Raise("YAMLError")
            ELSE <<"pair", SubSeq(c, 1, p - 1), yaml_block(SubSeq(ls, k + 1, Last(k)))>>
        Entry(k, seps) ==
            IF seps = {} THEN Raise("YAMLError")
            ELSE Pair(k, ls[k][2], CHOOSE p \in seps : \A q \in seps : p <= q)
        Sequence(items) ==
            IF \E n \in 1..Len(items) : IsRaise(items[n]) THEN Raise("YAMLError")
            ELSE <<"seq", items>>
        Mapping(pairs) ==
            IF \E n \in 1..Len(pairs) : IsRaise(pairs[n]) \/ IsRaise(pairs[n][3])
            THEN Raise("YAMLError")
            ELSE <<"map", [n \in 1..Len(pairs) |-> <<pairs[n][2], pairs[n][3]>>]>>
    IN IF \E k \in 1..Len(ls) : ls[k][1] < ind THEN Raise("YAMLError")
       ELSE IF IsDash(ls[1][2])
            THEN Sequence([n \in 1..Len(head) |-> Item(head[n])])
       ELSE IF Len(ls) = 1 /\ (KeySeps(ls[1][2]) = {} \/ ls[1][2][1] \in {"[", "{"})
            THEN Inline(ls[1][2])
       ELSE Mapping([n \in 1..Len(head) |-> Entry(head[n], KeySeps(ls[head[n]][2]))])

\* yaml.safe_load(text): the value of the document, or Raise("YAMLError").
yaml_safe_load(text) ==
    LET Lines(written) ==
            IF written = <<>> THEN Raise("YAMLError")
            ELSE yaml_block([k \in 1..Len(written) |->
                               <<Len(written[k]) - Len(LStrip(written[k])),
                                 LStrip(written[k])>>])
    IN Lines(SelectSeq(Split(text, "\n"), LAMBDA l : ~IsBlank(l)))

RECURSIVE DumpLines_reordered(_, _)
\* A dumper that writes the last key, and the last item, first.
DumpLines_reordered(v, ind) ==
    LET pad == [k \in 1..ind |-> " "]
        IsInline(x) == x[1] = "str" \/ x[2] = <<>>
        Inline(x) == IF x[1] = "str" THEN x[2]
                     ELSE IF x[1] = "seq" THEN <<"[", "]">> ELSE <<"{", "}">>
        \* A collection inside a sequence starts on the line of the dash.
        Compact(lines) ==
            <<pad \o <<"-", " ">> \o SubSeq(lines[1], ind + 3, Len(lines[1]))>> \o Tail(lines)
        Item(x) == IF IsInline(x) THEN <<pad \o <<"-", " ">> \o Inline(x)>>
                   ELSE Compact(DumpLines_reordered(x, ind + 2))
        Entry(e) == IF IsInline(e[2]) THEN <<pad \o e[1] \o <<":", " ">> \o Inline(e[2])>>
                    ELSE <<pad \o e[1] \o <<":">> >> \o DumpLines_reordered(e[2], ind + 2)
        Each[k \in 0..Len(v[2])] ==
            IF k = 0 THEN <<>>
            ELSE (IF v[1] = "seq" THEN Item(v[2][k]) ELSE Entry(v[2][k])) \o Each[k - 1]
    IN Each[Len(v[2])]

RECURSIVE DumpLines(_, _)
\* The lines yaml.dump writes for a collection at the given indentation, in
\* block style, the dashes of a sequence indented (PrettyListDumper), the
\* keys in the order of the dict (sort_keys=False).
DumpLines(v, ind) ==
    LET pad == [k \in 1..ind |-> " "]
        IsInline(x) == x[1] = "str" \/ x[2] = <<>>
        Inline(x) == IF x[1] = "str" THEN x[2]
                     ELSE IF x[1] = "seq" THEN <<"[", "]">> ELSE <<"{", "}">>
        \* A collection inside a sequence starts on the line of the dash.
        Compact(lines) ==
            <<pad \o <<"-", " ">> \o SubSeq(lines[1], ind + 3, Len(lines[1]))>> \o Tail(lines)
        Item(x) == IF IsInline(x) THEN <<pad \o <<"-", " ">> \o Inline(x)>>
                   ELSE Compact(DumpLines(x, ind + 2))
        Entry(e) == IF IsInline(e[2]) THEN <<pad \o e[1] \o <<":", " ">> \o Inline(e[2])>>
                    ELSE <<pad \o e[1] \o <<":">> >> \o DumpLines(e[2], ind + 2)
        Each[k \in 0..Len(v[2])] ==
            IF k = 0 THEN <<>>
            ELSE Each[k - 1] \o (IF v[1] = "seq" THEN Item(v[2][k]) ELSE Entry(v[2][k]))
    IN Each[Len(v[2])]

\* yaml.dump(data, Dumper=PrettyListDumper, default_style=None,
\* default_flow_style=False, sort_keys=False) of a mapping that is not empty.
yaml_dump(data) == JoinWith(DumpLines(data, 0), <<"\n">>) \o <<"\n">>

\* KitbashDirective._build_examples_block: the literal block of one example.
build_examples_block(self, example) ==
    LET keyed == LastSegment(self.field_alias) \o <<":", " ">> \o example
        Block(text, loaded) ==
            [kind |-> "literal_block", language |-> "yaml",
             warned |-> IsRaise(loaded),
             text |-> RemoveSuffix(RStripNewlines(IF IsRaise(loaded) THEN text
                                                  ELSE yaml_dump(loaded)),
                                   <<".", ".", ".">>)]
        Loaded(text) == Block(text, yaml_safe_load(text))
    IN Loaded(IF Len(keyed) > 0 /\ keyed[Len(keyed)] = "\n" THEN keyed
              ELSE keyed \o <<"\n">>)

\* A builder that puts the description group in front of the type group.
create_field_node_description_first(self) ==
    [ids |-> <<self.field_alias, self.label>>,
     classes |-> <<"kitbash-entry">>,
     children |->
        << <<"title", self.field_alias>>, <<"target", self.label>> >>
        \o (IF Truthy(self.deprecation_warning)
            THEN << <<"important", ParseRst(self.deprecation_warning[2])>> >>
            ELSE <<>>)
        \o (IF Truthy(self.field_description)
            THEN <<Header("Description")>> \o ParseRst(self.field_description[2])
            ELSE <<>>)
        \o (IF Truthy(self.field_type)
            THEN <<Header("Type"), TypeLine(self.field_type[2])>>
            ELSE <<>>)
        \o (IF Len(self.field_values) > 0
            THEN <<Header("Values"), create_table_node(self)>>
            ELSE <<>>)
        \o (IF Truthy(self.field_examples)
            THEN <<Header("Examples")>>
                 \o [i \in 1..Len(self.field_examples[2]) |->
                        build_examples_block(self, self.field_examples[2][i])]
            ELSE <<>>)]

\* KitbashDirective._create_field_node
create_field_node(self) ==
    [ids |-> <<self.field_alias, self.label>>,
     classes |-> <<"kitbash-entry">>,
     children |->
        << <<"title", self.field_alias>>, <<"target", self.label>> >>
        \o (IF Truthy(self.deprecation_warning)
            THEN << <<"important", ParseRst(self.deprecation_warning[2])>> >>
            ELSE <<>>)
        \o (IF Truthy(self.field_type)
            THEN <<Header("Type"), TypeLine(self.field_type[2])>>
            ELSE <<>>)
        \o (IF Truthy(self.field_description)
            THEN <<Header("Description")>> \o ParseRst(self.field_description[2])
            ELSE <<>>)
        \o (IF Len(self.field_values) > 0
            THEN <<Header("Values"), create_table_node(self)>>
            ELSE <<>>)
        \o (IF Truthy(self.field_examples)
            THEN <<Header("Examples")>>
                 \o [i \in 1..Len(self.field_examples[2]) |->
                        build_examples_block(self, self.field_examples[2][i])]
            ELSE <<>>)]

\* A default label that keeps the letter case of the field name.
DefaultLabel_field_as_written(arguments, field_name) ==
    Lower(LastSegment(arguments[1])) \o <<".">> \o field_name

\* The default label of _generate_label: <model-name>.<field-name>.
DefaultLabel(arguments, field_name) ==
    Lower(LastSegment(arguments[1])) \o <<".">> \o Lower(field_name)

\* self.label after _generate_label.
GeneratedLabel(self, arguments, options) ==
    IF "label" \in DOMAIN options THEN options["label"]
    ELSE DefaultLabel(arguments, self.field_name)

\* A registry write that keeps the entry a label already has.
LabelsAfter_first_writer(labs, self, docname) ==
    [l \in DOMAIN labs \cup {self.label} |->
        IF l \in DOMAIN labs THEN labs[l]
        ELSE <<docname, self.label, self.field_alias>>]

\* domaindata["std"]["labels"] after _generate_label.
LabelsAfter(labs, self, docname) ==
    [l \in DOMAIN labs \cup {self.label} |->
        IF l = self.label THEN <<docname, self.label, self.field_alias>> ELSE labs[l]]

\* A write of anonlabels that keeps the entry a label already has.
AnonlabelsAfter_first_writer(anon, self, docname) ==
    [l \in DOMAIN anon \cup {self.label} |->
        IF l \in DOMAIN anon THEN anon[l] ELSE <<docname, self.label>>]

\* domaindata["std"]["anonlabels"] after _generate_label.
AnonlabelsAfter(anon, self, docname) ==
    [l \in DOMAIN anon \cup {self.label} |->
        IF l = self.label THEN <<docname, self.label>> ELSE anon[l]]

\* KitbashDirective._get_enum_field_data
get_enum_field_data(self, annotation) ==
    LET Filled(cls, values) ==
            IF IsRaise(values)
            THEN [self EXCEPT
                    !.field_description = IF IsNone(self.field_description) THEN cls.doc
                                          ELSE self.field_description,
                    !.exc = values[2]]
            ELSE [self EXCEPT
                    !.field_description = IF IsNone(self.field_description) THEN cls.doc
                                          ELSE self.field_description,
                    !.field_values = values[2]]
    IN IF IsNone(annotation) THEN self
       ELSE Filled(ClassOf(annotation), get_enum_values(ClassOf(annotation)))

\* KitbashDirective._get_optional_field_data
get_optional_field_data(self, annotation) ==
    LET union_args == annotation[2]
        EnumData(typed) ==
            IF union_args[1][1] = "enum" THEN get_enum_field_data(typed, union_args[1])
            ELSE typed
    IN EnumData([self EXCEPT !.field_type = Str(format_type_string(union_args[1]))])

\* hasattr(t, "__args__")
HasArgs(t) == t[1] \in {"UnionType", "Union", "Annotated", "Literal", "GenericAlias"}

\* t.__args__[0]
FirstArg(t) ==
    CASE t[1] = "Annotated" -> t[2]
      [] t[1] = "GenericAlias" -> t[3][1]
      [] t[1] = "Literal" -> Str(t[2][1])
      [] OTHER -> t[2][1]

\* KitbashDirective._get_optional_annotated_field_data
get_optional_annotated_field_data(self, annotation) ==
    LET annotated_type == annotation[2][1]
        Described(typed, field_annotation) ==
            IF ~IsNone(field_annotation) /\ IsNone(typed.field_description)
               /\ IsNone(typed.field_examples)
            THEN [typed EXCEPT !.field_description = field_annotation[2],
                               !.field_examples = field_annotation[3]]
            ELSE typed
    IN IF IsNone(annotation) THEN self
       ELSE Described(IF annotated_type[1] # "Literal" /\ HasArgs(annotated_type)
                      THEN [self EXCEPT !.field_type =
                               Str(format_type_string(FirstArg(annotated_type)))]
                      ELSE self,
                      find_fieldinfo(IF annotated_type[1] = "Annotated"
                                     THEN Tuple(annotated_type[3])
                                     ELSE NoneV))

(***************************************************************************)
(* The options of the directives.                                          *)
(***************************************************************************)
\* options.get(key, "")
OptionOr(options, key, default) ==
    IF key \in DOMAIN options THEN options[key] ELSE default

\* A concatenation that writes both separators whatever the options hold.
WithNameOptions_always_dotted(field_alias, options) ==
    OptionOr(options, "prepend-name", <<>>) \o <<".">> \o field_alias
    \o <<".">> \o OptionOr(options, "append-name", <<>>)

\* <prefix>.<alias>.<suffix>, as both directives concatenate it.
WithNameOptions(field_alias, options) ==
    LET name_prefix == OptionOr(options, "prepend-name", <<>>)
        name_suffix == OptionOr(options, "append-name", <<>>)
        prefixed == IF Len(name_prefix) > 0 THEN name_prefix \o <<".">> \o field_alias
                    ELSE field_alias
    IN IF Len(name_suffix) > 0 THEN prefixed \o <<".">> \o name_suffix ELSE prefixed

\* The statements both run methods share: alias, description, examples,
\* type and enum values of the field (field_directive.py 78-102,
\* model_directive.py 96-130 without the deprecation line).
ExtractFieldData(self0, pydantic_model, field) ==
    LET field_params == FieldOf(pydantic_model, field)
        Described(named, docstring) ==
            IF IsRaise(docstring) THEN [named EXCEPT !.exc = docstring[2]]
            ELSE [named EXCEPT
                    !.field_description =
                        IF IsNone(docstring) THEN field_params.description
                        ELSE docstring,
                    !.field_examples = field_params.examples]
        Typed(described) ==
            IF field_params.annotation[1] = "UnionType"
            THEN get_optional_field_data(described, field_params.annotation)
            ELSE [described EXCEPT
                    !.field_type = Str(format_type_string(field_params.annotation))]
        Enriched(typed) ==
            IF Raised(typed) THEN typed
            ELSE IF field_params.annotation[1] = "Union"
                 THEN get_optional_annotated_field_data(typed, field_params.annotation)
            ELSE IF is_enum_type(field_params.annotation)
                 THEN get_enum_field_data(typed, field_params.annotation)
            ELSE typed
        AfterDescription(described) ==
            IF Raised(described) THEN described ELSE Enriched(Typed(described))
    IN AfterDescription(
          Described([self0 EXCEPT
                        !.field_name = field,
                        !.field_alias = IF Truthy(field_params.alias)
                                        THEN field_params.alias[2] ELSE field],
                    get_annotation_docstring(pydantic_model, field)))

(***************************************************************************)
(* field_directive.py                                                      *)
(***************************************************************************)
\* An append that keeps the indentation of the extracted description.
FieldDescription_not_dedented(self, options, content) ==
    IF "override-description" \in DOMAIN options
    THEN Str(JoinWith(content, <<"\n">>))
    ELSE IF Len(content) > 0
    THEN IF Truthy(self.field_description)
         THEN Str(self.field_description[2] \o <<"\n", "\n">>
                  \o JoinWith(content, <<"\n">>))
         ELSE Str(JoinWith(content, <<"\n">>))
    ELSE self.field_description

\* The description after the content of the directive is applied.
FieldDescription(self, options, content) ==
    IF "override-description" \in DOMAIN options
    THEN Str(JoinWith(content, <<"\n">>))
    ELSE IF Len(content) > 0
    THEN IF Truthy(self.field_description)
         THEN Str(Cleandoc(self.field_description[2]) \o <<"\n", "\n">>
                  \o JoinWith(content, <<"\n">>))
         ELSE Str(JoinWith(content, <<"\n">>))
    ELSE self.field_description

\* KitbashFieldDirective._init_fields, which run calls first and no source
\* file defines: the entry is reset before the field is processed, every
\* attribute back at the default __init__ gives it.
init_fields(self) ==
    [self EXCEPT
        !.field_name = <<>>, !.field_alias = <<>>, !.field_description = NoneV,
        !.field_examples = NoneV, !.field_type = NoneV, !.field_values = <<>>,
        !.deprecation_warning = NoneV, !.label = <<>>]

\* A run whose options only fill in what the extraction left unset.
FieldEntry_extraction_wins(i) ==
    LET Overridden(extracted, deprecation) ==
            [extracted EXCEPT
                !.deprecation_warning = deprecation,
                !.field_description = FieldDescription(extracted, i.options, i.content),
                !.field_type = IF "override-type" \in DOMAIN i.options
                                  /\ ~Truthy(extracted.field_type)
                               THEN Str(i.options["override-type"])
                               ELSE extracted.field_type,
                !.field_examples = IF "skip-examples" \in DOMAIN i.options
                                      /\ ~Truthy(extracted.field_examples)
                                   THEN NoneV
                                   ELSE extracted.field_examples,
                !.field_alias = WithNameOptions(extracted.field_alias, i.options)]
        Labelled(overridden) ==
            [overridden EXCEPT
                !.label = GeneratedLabel(overridden, i.arguments, i.options)]
        Options(extracted, deprecation) ==
            IF Raised(extracted) THEN extracted
            ELSE IF IsRaise(deprecation) THEN [extracted EXCEPT !.exc = deprecation[2]]
            ELSE IF "override-description" \in DOMAIN i.options /\ Len(i.content) = 0
                 THEN [extracted EXCEPT !.deprecation_warning = deprecation,
                                        !.exc = "ExtensionError"]
            ELSE Labelled(Overridden(extracted, deprecation))
        Entry(found) ==
            IF IsRaise(found) THEN [init_fields(InitialFields) EXCEPT !.exc = found[2]]
            ELSE Options(ExtractFieldData(init_fields(InitialFields), found[2],
                                          i.arguments[2]),
                         is_deprecated(found[2], i.arguments[2]))
    IN Entry(get_pydantic_model(i.py_module, i.arguments[1], i.arguments[2]))

\* KitbashFieldDirective.run up to _generate_label: the entry, with exc set
\* to the exception raised if any.
FieldEntry(i) ==
    LET Overridden(extracted, deprecation) ==
            [extracted EXCEPT
                !.deprecation_warning = deprecation,
                !.field_description = FieldDescription(extracted, i.options, i.content),
                !.field_type = IF "override-type" \in DOMAIN i.options
                               THEN Str(i.options["override-type"])
                               ELSE extracted.field_type,
                !.field_examples = IF "skip-examples" \in DOMAIN i.options THEN NoneV
                                   ELSE extracted.field_examples,
                !.field_alias = WithNameOptions(extracted.field_alias, i.options)]
        Labelled(overridden) ==
            [overridden EXCEPT
                !.label = GeneratedLabel(overridden, i.arguments, i.options)]
        Options(extracted, deprecation) ==
            IF Raised(extracted) THEN extracted
            ELSE IF IsRaise(deprecation) THEN [extracted EXCEPT !.exc = deprecation[2]]
            ELSE IF "override-description" \in DOMAIN i.options /\ Len(i.content) = 0
                 THEN [extracted EXCEPT !.deprecation_warning = deprecation,
                                        !.exc = "ExtensionError"]
            ELSE Labelled(Overridden(extracted, deprecation))
        Entry(found) ==
            IF IsRaise(found) THEN [init_fields(InitialFields) EXCEPT !.exc = found[2]]
            ELSE Options(ExtractFieldData(init_fields(InitialFields), found[2],
                                          i.arguments[2]),
                         is_deprecated(found[2], i.arguments[2]))
    IN Entry(get_pydantic_model(i.py_module, i.arguments[1], i.arguments[2]))

\* One rendering, as the history keeps it.
Rendering(docname, self) ==
    [doc |-> docname, label |-> self.label, alias |-> self.field_alias,
     field |-> self.field_name]

\* A run that writes the registry before its failure points are passed.
RunField_registers_first(i) ==
    LET Returns(self) ==
            /\ labels' = LabelsAfter(labels, self, i.docname)
            /\ anonlabels' = AnonlabelsAfter(anonlabels, self, i.docname)
            /\ IF Raised(self)
               THEN /\ ret' = [op |-> "kitbash-field", args |-> i,
                               out |-> Raise(self.exc), self |-> self]
                    /\ UNCHANGED rendered
               ELSE /\ rendered' = Append(rendered, Rendering(i.docname, self))
                    /\ ret' = [op |-> "kitbash-field", args |-> i,
                               out |-> <<"ok", <<create_field_node(self)>>>>,
                               self |-> self]
    IN /\ i.kind = "field"
       /\ Returns(FieldEntry(i))
       /\ nruns' = nruns + 1
       /\ UNCHANGED inv

\* KitbashFieldDirective.run
RunField(i) ==
    LET Returns(self) ==
            IF Raised(self)
            THEN /\ ret' = [op |-> "kitbash-field", args |-> i, out |-> Raise(self.exc),
                            self |-> self]
                 /\ UNCHANGED <<labels, anonlabels, rendered>>
            ELSE /\ labels' = LabelsAfter(labels, self, i.docname)
                 /\ anonlabels' = AnonlabelsAfter(anonlabels, self, i.docname)
                 /\ rendered' = Append(rendered, Rendering(i.docname, self))
                 /\ ret' = [op |-> "kitbash-field", args |-> i,
                            out |-> <<"ok", <<create_field_node(self)>>>>, self |-> self]
    IN /\ i.kind = "field"
       /\ Returns(FieldEntry(i))
       /\ nruns' = nruns + 1
       /\ UNCHANGED inv

(***************************************************************************)
(* model_directive.py                                                      *)
(***************************************************************************)

\* field.startswith(("_", "model_"))
IsInternalName(field) == StartsWith(field, <<"_">>) \/ StartsWith(field, <<"m", "o", "d", "e", "l", "_">>)

\* The names of the include-deprecated option, stripped.
IncludeDeprecated(options) ==
    LET parts == Split(OptionOr(options, "include-deprecated", <<>>), ",")
    IN {Strip(parts[k]) : k \in 1..Len(parts)}

\* The condition under which run renders the field.
ShouldRender(field, deprecation_warning, include_deprecated) ==
    \/ ~IsInternalName(field) /\ IsNone(deprecation_warning)
    \/ field \in include_deprecated

\* A clean-up that leaves the values and the description of the field.
clean_instance_fields_keeps_values(self) ==
    [self EXCEPT !.field_name = <<>>, !.field_alias = <<>>,
                 !.field_examples = NoneV, !.field_type = NoneV,
                 !.deprecation_warning = NoneV, !.label = <<>>]

\* KitbashModelDirective._clean_instance_fields
clean_instance_fields(self) ==
    [self EXCEPT !.field_name = <<>>, !.field_alias = <<>>,
                 !.field_description = NoneV, !.field_examples = NoneV,
                 !.field_type = NoneV, !.field_values = <<>>,
                 !.deprecation_warning = NoneV, !.label = <<>>]

\* A start of run in which skip-description also drops the content.
ClassNode_skip_drops_content(target_model, i) ==
    IF "skip-description" \in DOMAIN i.options THEN <<>>
    ELSE IF Len(i.content) > 0 THEN ParseRst(JoinWith(i.content, <<"\n">>))
    ELSE IF Truthy(target_model.doc) THEN ParseRst(target_model.doc[2])
    ELSE <<>>

\* The part of run before the loop: the parsed content, else the parsed
\* docstring of the model.
ClassNode(target_model, i) ==
    IF Len(i.content) > 0 THEN ParseRst(JoinWith(i.content, <<"\n">>))
    ELSE IF Truthy(target_model.doc) /\ "skip-description" \notin DOMAIN i.options
    THEN ParseRst(target_model.doc[2])
    ELSE <<>>

\* One pass of the loop of run over model_fields, for the field at index k.
\* st holds the nodes collected, the registry, the renderings done, the
\* directive's entry and the exception raised if any.
ModelStep(i, target_model, k, st) ==
    LET field == target_model.fields[k].name
        Labelled(aliased) ==
            [aliased EXCEPT !.label = GeneratedLabel(aliased, i.arguments, i.options)]
        Rendered(self) ==
            [st EXCEPT
                !.labels = LabelsAfter(st.labels, self, i.docname),
                !.anonlabels = AnonlabelsAfter(st.anonlabels, self, i.docname),
                !.nodes = Append(st.nodes, create_field_node(self)),
                !.rendered = Append(st.rendered, Rendering(i.docname, self)),
                !.self = clean_instance_fields(self)]
        Body(extracted, deprecation_warning) ==
            IF Raised(extracted)
            THEN [st EXCEPT !.exc = extracted.exc, !.self = extracted]
            ELSE Rendered(Labelled(
                    [extracted EXCEPT
                        !.deprecation_warning = deprecation_warning,
                        !.field_alias = WithNameOptions(extracted.field_alias,
                                                        i.options)]))
        Checked(pydantic_model, deprecation_warning) ==
            IF IsRaise(deprecation_warning)
            THEN [st EXCEPT !.exc = deprecation_warning[2]]
            ELSE IF ~ShouldRender(field, deprecation_warning,
                                  IncludeDeprecated(i.options))
                 THEN st
            ELSE Body(ExtractFieldData(st.self, pydantic_model, field),
                      deprecation_warning)
        Step(found) ==
            IF IsRaise(found) THEN [st EXCEPT !.exc = found[2]]
            ELSE Checked(found[2],
                         IF ~IsInternalName(field) THEN is_deprecated(found[2], field)
                         ELSE NoneV)
    IN Step(get_pydantic_model(i.py_module, i.arguments[1], field))

RECURSIVE ModelLoop(_, _, _, _)
\* The loop of run from the field at index k on; it ends at the first
\* exception.
ModelLoop(i, target_model, k, st) ==
    IF k > Len(target_model.fields) \/ st.exc # "none" THEN st
    ELSE ModelLoop(i, target_model, k + 1, ModelStep(i, target_model, k, st))

\* KitbashModelDirective.run
RunModel(i) ==
    LET Returns(st) ==
            /\ labels' = st.labels
            /\ anonlabels' = st.anonlabels
            /\ rendered' = st.rendered
            /\ ret' = [op |-> "kitbash-model", args |-> i,
                       out |-> IF st.exc # "none" THEN Raise(st.exc)
                               ELSE <<"ok", st.nodes>>,
                       self |-> st.self]
        Run(found) ==
            IF IsRaise(found)
            THEN /\ ret' = [op |-> "kitbash-model", args |-> i, out |-> found,
                            self |-> InitialFields]
                 /\ UNCHANGED <<labels, anonlabels, rendered>>
            ELSE Returns(ModelLoop(i, found[2], 1,
                                   [nodes |-> ClassNode(found[2], i), labels |-> labels,
                                    anonlabels |-> anonlabels, rendered |-> rendered,
                                    self |-> InitialFields, exc |-> "none"]))
    IN /\ i.kind = "model"
       /\ Run(get_pydantic_model(i.py_module, i.arguments[1], <<>>))
       /\ nruns' = nruns + 1
       /\ UNCHANGED inv

(***************************************************************************)
(* The directives of the documents.                                        *)
(***************************************************************************)
\* A Python dict of options.
NoOptions == [k \in {} |-> <<>>]
Opt(k, v) == [x \in {k} |-> v]
Opts(a, b) == [x \in DOMAIN a \cup DOMAIN b |-> IF x \in DOMAIN a THEN a[x] ELSE b[x]]

Invocation(kind, docname, py_module, arguments, options, content) ==
    [kind |-> kind, docname |-> docname, py_module |-> py_module,
     arguments |-> arguments, options |-> options, content |-> content]

\* The directives of the documents of a build, for the runs in sequence.
FieldRuns ==
    {Invocation("field", d, <<>>, a, o, <<>>) :
        d \in {"index", "other"},
        a \in { << <<"m", ".", "D">>, <<"a">> >>,
                << <<"m", ".", "D">>, <<"A">> >>,
                << <<"m", ".", "M">>, <<"f">> >>,
                << <<"m", ".", "X">>, <<"x">> >>,
                << <<"m", ".", "M">>, <<"z">> >>,
                << <<"z", ".", "M">>, <<"f">> >>,
                << <<"m", ".", "Z">>, <<"f">> >>,
                << <<"m", ".", "K">>, <<"a">> >> },
        o \in {NoOptions, Opt("label", <<"d", ".", "b">>),
               Opt("override-description", <<>>)}}

ModelRuns ==
    {Invocation("model", d, <<>>, << a >>, o, <<>>) :
        d \in {"index", "other"},
        a \in { <<"m", ".", "D">>, <<"m", ".", "X">>, <<"z", ".", "D">> },
        o \in {NoOptions, Opt("prepend-name", <<"a", "p", "p">>)}}

Init ==
    /\ labels = [l \in {} |-> <<>>]
    /\ anonlabels = [l \in {} |-> <<>>]
    /\ rendered = <<>>
    /\ ret = [op |-> "none"]
    /\ nruns = 0
    /\ inv = [kind |-> "none"]

FieldRun == \E i \in FieldRuns : nruns < MaxRuns /\ RunField(i)

ModelRun == \E i \in ModelRuns : nruns < MaxRuns /\ RunModel(i)

Next == FieldRun \/ ModelRun

Spec == Init /\ [][Next]_vars

(***************************************************************************)
(* One directive run on any arguments and options: the run methods as      *)
(* functions of their input.                                               *)
(***************************************************************************)
\* The directive runs: every argument, option and content the directives take.
RunInputs ==
    LET
        M_D == <<"m", ".", "D">>
        M_M == <<"m", ".", "M">>
        M_O == <<"m", ".", "O">>
        M_X == <<"m", ".", "X">>
        M_W == <<"m", ".", "W">>
        M_C == <<"m", ".", "C">>
        M_G == <<"m", ".", "G">>
        \* Each set of option dicts holds the dict without the option.
        LabelOptions == {NoOptions, Opt("label", <<"L", ".", "x">>), Opt("label", <<>>)}
        PrependOptions == {NoOptions, Opt("prepend-name", <<"a", "p", "p">>), Opt("prepend-name", <<>>)}
        AppendOptions == {NoOptions, Opt("append-name", <<"s", "u", "f">>), Opt("append-name", <<>>)}
        TypeOptions ==
            {NoOptions, Opt("override-type", <<"T">>), Opt("override-type", <<>>),
             Opt("override-type", LITERAL_OPEN \o <<"'", "a", "'", "]">>)}
        ExampleOptions == {NoOptions, Opt("skip-examples", <<>>)}
        DescriptionOptions == {NoOptions, Opt("override-description", <<>>)}
        SkipOptions == {NoOptions, Opt("skip-description", <<>>)}
        IncludeOptions ==
            {NoOptions,
             Opt("include-deprecated", <<>>),
             Opt("include-deprecated", <<"c">>),
             Opt("include-deprecated", <<"f">>),
             Opt("include-deprecated", <<"b", ",", " ", "c">>),
             Opt("include-deprecated", <<"d", " ", ",", "m", "o", "d", "e", "l", "_", "x">>)}
        Contents == {<<>>, << <<"c", "1">>, <<"c", "2">> >>}
        \* (py:module, arguments) of kitbash-field: every field of every model, a
        \* field no model has, and the class paths that do not resolve.
        FieldArguments ==
            {<< <<>>, <<m, f>> >> :
                m \in {M_D}, f \in FieldNames(ModelD) \cup {<<"z">>}}
            \cup {<< <<>>, <<m, f>> >> : m \in {M_M}, f \in FieldNames(ModelM)}
            \cup {<< <<>>, <<m, f>> >> : m \in {M_O}, f \in FieldNames(ModelO)}
            \cup {<< <<>>, <<m, f>> >> : m \in {M_X}, f \in FieldNames(ModelX)}
            \cup {<< <<"m">>, << <<"M">>, <<"f">> >> >>,
                  << <<>>, << <<"M">>, <<"f">> >> >>,
                  << <<>>, << <<"z", ".", "M">>, <<"f">> >> >>,
                  << <<>>, << <<"m", ".", "Z">>, <<"f">> >> >>,
                  << <<>>, << <<"m", ".", "K">>, <<"a">> >> >>}
        \* The fields of the models that differ in where the description comes
        \* from and in the class that declares the field; they are rendered
        \* without options.
        DeclaredArguments ==
            {<< <<>>, <<m, f>> >> : m \in {M_W}, f \in FieldNames(ModelW)}
            \cup {<< <<>>, <<m, f>> >> : m \in {M_C, M_G}, f \in FieldNames(ModelC)}
        ModelArguments ==
            {<< <<>>, <<m>> >> : m \in {M_D, M_M, M_O, M_X, M_W, M_C}}
            \cup {<< <<"m">>, << <<"D">> >> >>,
                  << <<>>, << <<"D">> >> >>,
                  << <<>>, << <<"z", ".", "D">> >> >>,
                  << <<>>, << <<"m", ".", "K">> >> >>}
    IN
    {Invocation("field", "index", a[1], a[2],
                Opts(Opts(Opts(o1, o2), Opts(o3, o4)), Opts(o5, o6)), c) :
        a \in FieldArguments, o1 \in LabelOptions, o2 \in PrependOptions,
        o3 \in AppendOptions, o4 \in TypeOptions, o5 \in ExampleOptions,
        o6 \in DescriptionOptions, c \in Contents}
    \cup
    {Invocation("field", "index", a[1], a[2], NoOptions, c) :
        a \in DeclaredArguments, c \in Contents}
    \cup
    {Invocation("model", "index", a[1], a[2],
                Opts(Opts(o1, o2), Opts(o3, o4)), c) :
        a \in ModelArguments, o1 \in IncludeOptions, o2 \in PrependOptions,
        o3 \in AppendOptions, o4 \in SkipOptions, c \in Contents}

InitRun ==
    /\ labels = [l \in {} |-> <<>>]
    /\ anonlabels = [l \in {} |-> <<>>]
    /\ rendered = <<>>
    /\ ret = [op |-> "none"]
    /\ nruns = 0
    /\ inv \in RunInputs

OneFieldRun == nruns = 0 /\ RunField(inv)

OneModelRun == nruns = 0 /\ RunModel(inv)

NextRun == OneFieldRun \/ OneModelRun

SpecRun == InitRun /\ [][NextRun]_vars

(***************************************************************************)
(* The helpers of utils.py and the node builder, called on their own.      *)
(***************************************************************************)
Call(op, a, b, c) == [kind |-> "call", op |-> op, a |-> a, b |-> b, c |-> c]

\* A model of one field with the given marker.
ModelWithMarker(marker) ==
    Class(<<"T">>, "model", NoneV, 1, 0, <<AnnAssign(<<"a">>)>>,
          <<Field(<<"a">>, NoneV, NoneV, NoneV, marker, IntT)>>, << <<"T">> >>)

ClassWithBody(kind, body, nd) == Class(<<"T">>, kind, NoneV, 1, nd, body, <<>>, <<>>)

\* One call of one helper: the helper and its arguments.
UtilCalls ==
    LET
        \* The values of the `deprecated` parameter of a field.
        Markers ==
            {NoneV, Bool(FALSE), Bool(TRUE), Str(<<>>), Str(<<"e", "w", ".">>), Str(<<"x">>)}
        \* The statements of a class body, next to the declarations.
        OtherStatements ==
            {StrExpr(<<"d", "1">>), StrExpr(<<"d", "2">>), StrExpr(<<>>),
             Expr(Constant(EllipsisV)), Expr(Leaf("Call")), Leaf("Pass"),
             FunctionDef(<<"g">>, <<"g", "d">>)}
        EnumStatements == {Assign(<<"A">>, <<"a">>), Assign(<<"B">>, <<"b">>)} \cup OtherStatements
        ModelStatements == {AnnAssign(<<"x">>), AnnAssign(<<"y">>)} \cup OtherStatements
        IsDeclaration(st) == st.type \in {"Assign", "AnnAssign"}
        \* The class bodies of up to MaxBody statements that declare no name twice.
        Bodies(statements) ==
            {b \in UNION {[1..n -> statements] : n \in 0..MaxBody} :
                \A j, k \in 1..Len(b) :
                    (j # k /\ IsDeclaration(b[j]) /\ IsDeclaration(b[k])) => b[j].id # b[k].id}
        \* The entries handed to the node builder.
        Entries ==
            {[field_name |-> <<"f">>, field_alias |-> al, field_description |-> de,
              field_examples |-> ex, field_type |-> ty, field_values |-> va,
              deprecation_warning |-> dp, label |-> <<"m", ".", "f">>, exc |-> "none"] :
                al \in {<<"f">>, <<"a", "p", "p", ".", "t">>},
                de \in {NoneV, Str(<<>>), Str(<<"d", "f">>)},
                ex \in {NoneV, List(<<>>), List(<< <<"e", "1">> >>),
                        List(<< <<"e", "2">>, <<"e", "1">> >>),
                        List(<< <<"{", "[", " ", "o", "o", "p", "s">>, <<"e", "1">> >>)},
                ty \in {NoneV, Str(<<>>), Str(<<"i", "n", "t">>),
                        Str(<<"L", "i", "t", "e", "r", "a", "l", "[", "'", "a", "'", "]">>),
                        Str(<<"L", "i", "t", "e", "r", "a", "l", "[", "'", "b", "'", ",", " ", "'", "a", "'", "]">>),
                        Str(<<"L", "i", "t", "e", "r", "a", "l", "[", "1", ",", " ", "2", "]">>),
                        Str(<<"l", "i", "s", "t", "[", "L", "i", "t", "e", "r", "a", "l", "[", "'", "a", "'", "]", "]">>)},
                va \in {<<>>, << <<<<"v", "1">>, <<"d", "1">>>> >>,
                        << <<<<"v", "2">>, <<"d", "2">>>>, <<<<"v", "1">>, <<"d", "1">>>> >>},
                dp \in {NoneV, Bool(FALSE), Str(<<>>), Str(DEPRECATED_PREFIX \o <<"x">>)}}
        PathParts ==
            {<<>>, <<"m">>, <<"z">>, <<"M">>, <<"K">>, <<"v">>, <<"Z">>, <<"m", ".", "M">>,
             <<"m", ".", "K">>, <<"m", ".", "v">>, <<"m", ".", "Z">>, <<"z", ".", "M">>,
             <<".", "M">>, <<".", ".", "M">>, <<"m", ".", "X">>,
             <<"m", ".", "P">>, <<"m", ".", "C">>, <<"m", ".", "G">>, <<"m", ".", "N">>}
        \* The examples of a field: scalars and flow collections, with and
        \* without newlines at the end, then the texts that are not YAML.
        Examples ==
            {<<"e", "1">>,
             <<"n", "o", "t", " ", "g", "o", "o", "d">>,
             <<"w", "a", "i", "t", ".", ".", ".">>,
             <<"a", ".", "b">>,
             <<"e", "1", "\n">>,
             <<"{", "s", "u", "b", "k", "e", "y", ":", " ", "[", "g", "o", "o", "d", ",", " ", "n", "i", "c", "e", "]", "}">>,
             <<"[", "{", "i", "t", "e", "m", "1", ":", " ", "v", "a", "l", "1", ",", " ", "i", "t", "e", "m", "2", ":", " ", "v", "a", "l", "2", "}", "]">>,
             <<"{", "b", ":", " ", "x", ",", " ", "a", ":", " ", "z", "}">>,
             <<"[", "b", ",", " ", "a", "]">>,
             <<"[", "z", ",", " ", "a", ".", ".", ".", "]">>,
             <<"{", "k", ":", " ", "[", "]", ",", " ", "j", ":", " ", "{", "}", "}">>,
             <<"[", "[", "x", ",", " ", "z", "]", ",", " ", "w", "]">>,
             <<"{", "b", ":", " ", "{", "d", ":", " ", "x", ",", " ", "c", ":", " ", "z", "}", ",", " ", "a", ":", " ", "w", ".", ".", ".", "}">>,
             <<"[", "x", ",", " ", "z", "]", "\n", "\n">>,
             <<"{", "[", " ", "o", "o", "p", "s">>,
             <<"[", "a", ",", " ", "b">>,
             <<"a", ":", " ", "b">>,
             <<"{", "a", ":", " ", "b">>,
             <<"{", "x", ".", ".", ".">>,
             <<"[", "a", "]", "]">>,
             <<"{", "[", " ", "o", "o", "p", "s", ".", ".", ".", "\n">>}
        ExampleCalls ==
            {Call("build_examples_block", al, ex, 0) :
                al \in {<<"t">>, <<"a", "p", "p", ".", "t">>, <<"t", ".", "s", "u", "f">>},
                ex \in Examples}
        \* The types and type texts handed to format_type_string.
        TypeArguments ==
            {NoneV, IntT, StrT, KT, ET, NoneType,
             ClassT(<<"m">>, <<"O", "u", "t", "e", "r", ".", "I", "n", "n", "e", "r">>),
             Str(<<"d", "i", "c", "t", "[", "i", "d", "k", ".", "m", "a", "n", ".", "s", "t", "r", ",", " ", "t", "y", "p", "i", "n", "g", ".", "A", "n", "y", "]">>),
             Str(<<"t", "y", "p", "i", "n", "g", ".", "L", "i", "t", "e", "r", "a", "l", "[", "'", "f", "o", "o", "@", "1", ".", "0", "'", ",", " ", "'", "f", "o", "o", "@", "1", ".", "1", "'", "]">>),
             Str(<<"f", "o", "o", ".", "b", "a", "r", "1">>),
             Str(<<"1", "f", "o", "o", ".", "b", "a", "r">>),
             LiteralT(<< <<"v", "1">>, <<"v", "2">> >>),
             LiteralT(<< <<"f", "o", "o", "@", "1", ".", "0">>, <<"v", "2">> >>),
             LiteralT(<< <<"a", ".", "b">> >>),
             LiteralT(<< <<"f", "o", "o", "@", "b", "a", "r", ".", "b", "a", "z">> >>),
             GenericAliasT(<<"l", "i", "s", "t">>, <<KT>>),
             UnionTypeT(<<KT, NoneType>>),
             UnionT(<<KT, NoneType>>),
             UnionT(<<LiteralT(<< <<"s", "n", "a", "p", ".", "y", "a", "m", "l">> >>), NoneType>>),
             TEST_TYPE}
        TypeCalls == {Call("format_type_string", t, <<>>, 0) : t \in TypeArguments}
        DeprecatedCalls == {Call("is_deprecated", m, <<>>, 0) : m \in Markers}
        EnumMemberCalls ==
            {Call("get_enum_member_docstring", b, n, 0) :
                b \in Bodies(EnumStatements), n \in {<<"A">>, <<"B">>}}
        EnumValuesCalls == {Call("get_enum_values", b, <<>>, 0) : b \in Bodies(EnumStatements)}
        AnnotationCalls ==
            {Call("get_annotation_docstring", b, n, nd) :
                b \in Bodies(ModelStatements), n \in {<<"x">>, <<"y">>}, nd \in {0, 1}}
        ModelCalls ==
            {Call("get_pydantic_model", p, n, f) :
                p \in {<<>>, <<"m">>, <<"z">>}, n \in PathParts,
                f \in {<<>>, <<"f">>, <<"a">>, <<"b">>, <<"c">>, <<"z">>}}
        NodeCalls == {Call("create_field_node", e, <<>>, 0) : e \in Entries}
        \* The objects of an annotated type's metadata: validators, and
        \* FieldInfo objects that differ in what they carry.
        MetadataElements ==
            {<<"AfterValidator">>, <<"BeforeValidator">>,
             <<"FieldInfo", Str(<<"d", "1">>), NoneV>>,
             <<"FieldInfo", NoneV, List(<< <<"e", "1">> >>)>>}
        MetadataCalls ==
            {Call("find_fieldinfo", md, <<>>, 0) :
                md \in {NoneV} \cup {Tuple(t) : t \in UNION {[1..n -> MetadataElements] :
                                                           n \in 0..MaxMetadata}}}
        \* The entry and the annotation handed to the annotated-optional
        \* step: description and examples unset, empty and set; optional
        \* wrappers of annotated types with and without FieldInfo, of a
        \* class and of a Literal.
        AnnotatedCalls ==
            {Call("get_optional_annotated_field_data",
                  [InitialFields EXCEPT !.field_name = <<"f">>, !.field_alias = <<"f">>,
                                        !.field_description = de, !.field_examples = ex,
                                        !.field_type = Str(<<"t">>)],
                  UnionT(<<t, NoneType>>), 0) :
                de \in {NoneV, Str(<<>>), Str(<<"d", "f">>)},
                ex \in {NoneV, List(<<>>), List(<< <<"e", "1">> >>)},
                t \in {TEST_TYPE, IntT,
                       LiteralT(<< <<"a">> >>),
                       AnnotatedT(StrT, << <<"AfterValidator">> >>),
                       AnnotatedT(ET, << <<"FieldInfo", Str(<<"t", "d">>), NoneV>> >>),
                       AnnotatedT(StrT, << <<"FieldInfo", NoneV, List(<< <<"s", "1">> >>)>>,
                                           <<"BeforeValidator">> >>),
                       AnnotatedT(StrT, << <<"FieldInfo", Str(<<"o", "d">>), NoneV>>,
                                           <<"FieldInfo", Str(<<"t", "d">>),
                                             List(<< <<"s", "1">> >>)>> >>)}}
    IN [is_deprecated |-> DeprecatedCalls,
        get_enum_member_docstring |-> EnumMemberCalls,
        get_enum_values |-> EnumValuesCalls,
        get_annotation_docstring |-> AnnotationCalls,
        get_pydantic_model |-> ModelCalls,
        create_field_node |-> NodeCalls,
        build_examples_block |-> ExampleCalls,
        format_type_string |-> TypeCalls,
        find_fieldinfo |-> MetadataCalls,
        get_optional_annotated_field_data |-> AnnotatedCalls]

InitUtils ==
    /\ labels = [l \in {} |-> <<>>]
    /\ anonlabels = [l \in {} |-> <<>>]
    /\ rendered = <<>>
    /\ ret = [op |-> "none"]
    /\ nruns = 0
    /\ \E op \in DOMAIN UtilCalls : inv \in UtilCalls[op]

Returns(out) ==
    /\ nruns = 0
    /\ ret' = [op |-> inv.op, args |-> inv, out |-> out]
    /\ nruns' = 1
    /\ UNCHANGED <<labels, anonlabels, rendered, inv>>

CallIsDeprecated ==
    /\ inv.op = "is_deprecated"
    /\ Returns(is_deprecated(ModelWithMarker(inv.a), <<"a">>))

CallGetEnumMemberDocstring ==
    /\ inv.op = "get_enum_member_docstring"
    /\ Returns(get_enum_member_docstring(ClassWithBody("enum", inv.a, 0), inv.b))

CallGetEnumValues ==
    /\ inv.op = "get_enum_values"
    /\ Returns(get_enum_values(ClassWithBody("enum", inv.a, 0)))

CallGetAnnotationDocstring ==
    /\ inv.op = "get_annotation_docstring"
    /\ Returns(get_annotation_docstring(ClassWithBody("model", inv.a, inv.c), inv.b))

CallGetPydanticModel ==
    /\ inv.op = "get_pydantic_model"
    /\ Returns(LET found == get_pydantic_model(inv.a, inv.b, inv.c)
               IN IF IsRaise(found) THEN found ELSE <<"ok", found[2].name>>)

CallCreateFieldNode ==
    /\ inv.op = "create_field_node"
    /\ Returns(create_field_node(inv.a))

CallBuildExamplesBlock ==
    /\ inv.op = "build_examples_block"
    /\ Returns(build_examples_block([InitialFields EXCEPT !.field_alias = inv.a], inv.b))

CallFormatTypeString ==
    /\ inv.op = "format_type_string"
    /\ Returns(format_type_string(inv.a))

CallFindFieldinfo ==
    /\ inv.op = "find_fieldinfo"
    /\ Returns(find_fieldinfo(inv.a))

CallGetOptionalAnnotatedFieldData ==
    /\ inv.op = "get_optional_annotated_field_data"
    /\ Returns(get_optional_annotated_field_data(inv.a, inv.b))

NextUtils ==
    \/ CallIsDeprecated
    \/ CallGetEnumMemberDocstring
    \/ CallGetEnumValues
    \/ CallGetAnnotationDocstring
    \/ CallGetPydanticModel
    \/ CallCreateFieldNode
    \/ CallBuildExamplesBlock
    \/ CallFormatTypeString
    \/ CallFindFieldinfo
    \/ CallGetOptionalAnnotatedFieldData

SpecUtils == InitUtils /\ [][NextUtils]_vars

(***************************************************************************)
(* Properties.                                                             *)
(***************************************************************************)
Called(op) == ret.op = op

\* C1: the deprecation note of a field is absent (None) when the marker is
\* unset or False, is 'This key is deprecated.' when the marker is True, and
\* is 'Deprecated. ' followed by the marker when the marker is a string.
C1_DeprecationNote ==
    Called("is_deprecated") =>
        LET marker == ret.args.a
        IN /\ (marker = NoneV \/ marker = Bool(FALSE)) => ret.out = NoneV
           /\ marker = Bool(TRUE) =>
                ret.out = Str(<<"T", "h", "i", "s", " ", "k", "e", "y", " ", "i", "s", " ",
                                "d", "e", "p", "r", "e", "c", "a", "t", "e", "d", ".">>)
           /\ IsStr(marker) =>
                ret.out = Str(<<"D", "e", "p", "r", "e", "c", "a", "t", "e", "d", ".", " ">>
                              \o marker[2])

\* A bare string literal as a statement.
IsStringLiteral(st) ==
    st.type = "Expr" /\ st.value.type = "Constant" /\ IsStr(st.value.value)

\* The statement right after the declaration of name is a string literal.
DocumentedAt(body, k) == k + 1 <= Len(body) /\ IsStringLiteral(body[k + 1])

\* The pairs (member value, literal) of the members that a string literal
\* follows, in declaration order.
DocumentedMembers(body) ==
    LET F[k \in 0..Len(body)] ==
            IF k = 0 THEN <<>>
            ELSE IF body[k].type = "Assign" /\ DocumentedAt(body, k)
                 THEN Append(F[k - 1], <<body[k].value.value[2], body[k + 1].value.value[2]>>)
                 ELSE F[k - 1]
    IN F[Len(body)]

\* A class body of member assignments and non-empty string literals only.
PlainEnumBody(body) ==
    \A k \in 1..Len(body) :
        \/ body[k].type = "Assign"
        \/ IsStringLiteral(body[k]) /\ body[k].value.value[2] # <<>>

\* C3: get_enum_values returns, without raising, exactly one (member value,
\* literal) pair per member that a string literal follows, in declaration
\* order, even when an undocumented member is the last statement.
C3_EnumValues ==
    (Called("get_enum_values") /\ PlainEnumBody(ret.args.a)) =>
        ret.out = List(DocumentedMembers(ret.args.a))

\* The docstring the scan is to find for the declaration of the given type:
\* the literal right after the declaration, else None.
AdjacentDocstring(body, type, name) ==
    LET decls == {k \in 1..Len(body) : body[k].type = type /\ body[k].id = name}
    IN IF decls # {} /\ DocumentedAt(body, CHOOSE k \in decls : TRUE)
       THEN Str(body[(CHOOSE k \in decls : TRUE) + 1].value.value[2])
       ELSE NoneV

\* C4: both source scans return the string literal that is the statement
\* right after the declaration, and None in every other case (another kind
\* of statement follows, nothing follows, the literal is further away).
C4_AdjacentDocstring ==
    /\ Called("get_annotation_docstring") =>
          ret.out = AdjacentDocstring(ret.args.a, "AnnAssign", ret.args.b)
    /\ Called("get_enum_member_docstring") =>
          ret.out = AdjacentDocstring(ret.args.a, "Assign", ret.args.b)

\* C10: get_pydantic_model raises ImportError for a module that cannot be
\* imported, AttributeError for a missing class, TypeError for a class that
\* is no model, AttributeError for a missing field; every class path that
\* does not resolve ends in one of these.
C10_ResolutionErrors ==
    Called("get_pydantic_model") =>
        LET path == IF ret.args.a # <<>> THEN ret.args.a \o <<".">> \o ret.args.b
                    ELSE ret.args.b
            module == SubSeq(path, 1, LastDot(path) - 1)
            class == SubSeq(path, LastDot(path) + 1, Len(path))
            known == LastDot(path) > 0 /\ module \in Modules
                     /\ \E c \in Classes : c.name = class
        IN /\ IsRaise(ret.out) =>
                ret.out[2] \in {"ImportError", "AttributeError", "TypeError"}
           /\ (LastDot(path) > 0 /\ module \notin Modules) =>
                ret.out \in {Raise("ImportError"), Raise("TypeError")}
           /\ (LastDot(path) > 0 /\ module \in Modules
               /\ ~\E c \in Classes : c.name = class) => ret.out = Raise("AttributeError")
           /\ (known /\ ClassNamed(class).kind # "model") => ret.out = Raise("TypeError")
           /\ (known /\ ClassNamed(class).kind = "model" /\ ret.args.c # <<>>
               /\ ret.args.c \notin FieldNames(ClassNamed(class))) =>
                ret.out = Raise("AttributeError")
           /\ ~known => IsRaise(ret.out)

\* A run of a directive that returned its nodes.
RunReturned == ret.op \in {"kitbash-field", "kitbash-model"} /\ ret.out[1] = "ok"

\* The sections a run from the empty history returned, one per rendering.
RunSections ==
    SubSeq(ret.out[2], Len(ret.out[2]) - Len(rendered) + 1, Len(ret.out[2]))

\* The model the directive's first argument names.
TargetModel == ClassNamed(LastSegment(ret.args.arguments[1]))

\* The deprecation marker says the field is not deprecated.
NotDeprecated(f) == f.deprecated = NoneV \/ f.deprecated = Bool(FALSE)

\* C2: kitbash-model renders a section for a field exactly when the field
\* is named in include-deprecated, or its name starts with neither '_' nor
\* 'model_' and its deprecation marker is unset or False.
C2_RenderedFields ==
    (RunReturned /\ ret.op = "kitbash-model") =>
        \A k \in 1..Len(TargetModel.fields) :
            LET f == TargetModel.fields[k]
            IN (\E r \in 1..Len(rendered) : rendered[r].field = f.name)
               <=> \/ f.name \in IncludeDeprecated(ret.args.options)
                   \/ /\ ~StartsWith(f.name, <<"_">>)
                      /\ ~StartsWith(f.name, <<"m", "o", "d", "e", "l", "_">>)
                      /\ NotDeprecated(f)

\* The annotation is a union of one class T and None.
IsOptionalOfClass(t) ==
    /\ t[1] \in {"UnionType", "Union"}
    /\ Len(t[2]) = 2
    /\ \/ IsClass(t[2][1]) /\ t[2][1] # NoneType /\ t[2][2] = NoneType
       \/ IsClass(t[2][2]) /\ t[2][2] # NoneType /\ t[2][1] = NoneType

\* The class T of a union of T and None.
WrappedClass(t) == IF t[2][1] = NoneType THEN t[2][2] ELSE t[2][1]

\* The node after the header of the given name, NoneV without the header.
NodeAfterHeader(section, name) ==
    LET at == {k \in 1..Len(section.children) - 1 : section.children[k] = Header(name)}
    IN IF at = {} THEN NoneV ELSE section.children[(CHOOSE k \in at : TRUE) + 1]

\* C5: for a field annotated with a union of one class T and None, the
\* type line of either directive shows format_type_string(T).
C5_OptionalTypeLabel ==
    (RunReturned /\ "override-type" \notin DOMAIN ret.args.options) =>
        \A k \in 1..Len(rendered) :
            LET f == FieldOf(TargetModel, rendered[k].field)
            IN IsOptionalOfClass(f.annotation) =>
                  NodeAfterHeader(RunSections[k], "Type") =
                      <<"paragraph",
                        <<"literal", format_type_string(WrappedClass(f.annotation))>>>>

\* An attribute of the entry is set and not empty.
IsSet(v) == v[1] \in {"str", "list"} /\ v[2] # <<>>

\* The nodes of one group of the section.
GroupNodes(e, group) ==
    CASE group = "deprecation" ->
            IF IsSet(e.deprecation_warning)
            THEN << <<"important", ParseRst(e.deprecation_warning[2])>> >> ELSE <<>>
      [] group = "type" ->
            IF IsSet(e.field_type)
            THEN <<Header("Type"), TypeLine(e.field_type[2])>> ELSE <<>>
      [] group = "description" ->
            IF IsSet(e.field_description)
            THEN <<Header("Description")>> \o ParseRst(e.field_description[2]) ELSE <<>>
      [] group = "values" ->
            IF e.field_values # <<>>
            THEN <<Header("Values"), create_table_node(e)>> ELSE <<>>
      [] group = "examples" ->
            IF IsSet(e.field_examples)
            THEN <<Header("Examples")>>
                 \o [k \in 1..Len(e.field_examples[2]) |->
                        build_examples_block(e, e.field_examples[2][k])]
            ELSE <<>>

GroupOrder == <<"deprecation", "type", "description", "values", "examples">>

\* The groups of the entry, one after the other in the fixed order.
GroupsInOrder(e) ==
    LET F[k \in 0..Len(GroupOrder)] ==
            IF k = 0 THEN <<>> ELSE F[k - 1] \o GroupNodes(e, GroupOrder[k])
    IN F[Len(GroupOrder)]

\* C6: the section is the title, the target, then the deprecation, type,
\* description, values and examples groups in this order, each present
\* exactly when its attribute is set and not empty.
C6_SectionLayout ==
    Called("create_field_node") =>
        LET e == ret.args.a
        IN /\ ret.out.children[1] = <<"title", e.field_alias>>
           /\ ret.out.children[2] = <<"target", e.label>>
           /\ SubSeq(ret.out.children, 3, Len(ret.out.children)) = GroupsInOrder(e)
           /\ (\A g \in 1..Len(GroupOrder) : GroupNodes(e, GroupOrder[g]) = <<>>)
                 => Len(ret.out.children) = 2

\* An entry with all five groups, two examples, was rendered.
C6_Witness ==
    /\ Called("create_field_node")
    /\ \A g \in 1..Len(GroupOrder) : GroupNodes(ret.args.a, GroupOrder[g]) # <<>>
    /\ Len(ret.args.a.field_examples[2]) = 2
    /\ Len(ret.out.children) = 12

\* The display alias of a field under the name options.
DisplayAlias(f, options) ==
    LET base == IF IsSet(f.alias) THEN f.alias[2] ELSE f.name
        front == IF "prepend-name" \in DOMAIN options /\ options["prepend-name"] # <<>>
                 THEN options["prepend-name"] \o <<".">> ELSE <<>>
        back == IF "append-name" \in DOMAIN options /\ options["append-name"] # <<>>
                THEN <<".">> \o options["append-name"] ELSE <<>>
    IN front \o base \o back

C8_Label ==
    RunReturned =>
        \A k \in 1..Len(rendered) :
            LET model_name == LastSegment(ret.args.arguments[1])
                label == IF "label" \in DOMAIN ret.args.options
                         THEN ret.args.options["label"]
                         ELSE [c \in 1..Len(model_name) |-> LowerChar(model_name[c])]
                              \o <<".">>
                              \o [c \in 1..Len(rendered[k].field) |->
                                     LowerChar(rendered[k].field[c])]
            IN /\ RunSections[k].ids[2] = label
               /\ RunSections[k].children[2] = <<"target", label>>

\* Field 'A' of model 'm.D' was rendered under a prepend-name and got the
\* label 'd.a'.
C8_Witness ==
    /\ RunReturned
    /\ "label" \notin DOMAIN ret.args.options
    /\ "prepend-name" \in DOMAIN ret.args.options
    /\ ret.args.options["prepend-name"] # <<>>
    /\ \E k \in 1..Len(rendered) :
          /\ rendered[k].field = <<"A">>
          /\ RunSections[k].ids[2] = <<"d", ".", "a">>

\* The index of the last rendering of the history that used label l.
LastRendering(l) ==
    CHOOSE k \in 1..Len(rendered) :
        /\ rendered[k].label = l
        /\ \A j \in (k + 1)..Len(rendered) : rendered[j].label # l

\* C9: after any sequence of renderings the registry holds, for every label
\* rendered, (document, label, display alias) of the last rendering that
\* used the label, and holds no other label.
C9_LastWriterWins ==
    /\ DOMAIN labels = {rendered[k].label : k \in 1..Len(rendered)}
    /\ \A l \in DOMAIN labels :
          labels[l] = <<rendered[LastRendering(l)].doc, l,
                        rendered[LastRendering(l)].alias>>

\* A label was rendered twice under two aliases, after another label that
\* is still in the registry.
C9_Witness ==
    \E j, k \in 1..Len(rendered) :
        /\ j < k
        /\ rendered[j].label = rendered[k].label
        /\ rendered[j].alias # rendered[k].alias
        /\ labels[rendered[k].label][3] = rendered[k].alias
        /\ \E o \in 1..Len(rendered) :
              /\ o < j
              /\ rendered[o].label # rendered[k].label
              /\ rendered[o].label \in DOMAIN labels

(***************************************************************************)
(* The options and the content of kitbash-field.                           *)
(***************************************************************************)
\* The run was of kitbash-field.
FieldRunDone == ret.op = "kitbash-field"

\* The arguments of the run name a field of a model of module m.
FieldResolves ==
    LET path == IF ret.args.py_module # <<>>
                THEN ret.args.py_module \o <<".">> \o ret.args.arguments[1]
                ELSE ret.args.arguments[1]
    IN \E c \in Classes :
          /\ c.kind = "model"
          /\ path = c.module \o <<".">> \o c.name
          /\ ret.args.arguments[2] \in FieldNames(c)

\* The lines of the content, joined by newlines.
ContentText == JoinWith(ret.args.content, <<"\n">>)

\* C11: kitbash-field with override-description, on a field that resolves:
\* without content the run raises ExtensionError and returns no node; with
\* content the description of the rendered entry is exactly the content
\* lines joined by newlines.
C11_OverrideDescription ==
    (FieldRunDone /\ FieldResolves /\ "override-description" \in DOMAIN ret.args.options) =>
        /\ ret.args.content = <<>> => ret.out = Raise("ExtensionError")
        /\ (ret.args.content # <<>> /\ RunReturned) =>
              ret.self.field_description = Str(ContentText)

\* The class that declares the field: the nearest class of the model's
\* __mro__, the model first, that is a model and annotates the field.
DeclaringClass(model, field) ==
    LET places == {k \in 1..Len(model.mro) :
                      /\ ClassNamed(model.mro[k]).kind = "model"
                      /\ field \in Annotations(ClassNamed(model.mro[k]))}
    IN IF places = {} THEN model
       ELSE ClassNamed(model.mro[CHOOSE k \in places : \A j \in places : k <= j])

\* The description the run extracted from the model, before the content of
\* the directive is applied.
ExtractedDescription ==
    ExtractFieldData(InitialFields, DeclaringClass(TargetModel, ret.args.arguments[2]),
                     ret.args.arguments[2]).field_description

\* C12: kitbash-field without override-description: with content, the
\* description is the dedented extracted description, an empty line and the
\* content when a description was extracted, and the content alone when
\* none was; without content it is the extracted description unchanged.
C12_AppendedDescription ==
    (FieldRunDone /\ RunReturned /\ "override-description" \notin DOMAIN ret.args.options) =>
        ret.self.field_description =
            IF ret.args.content = <<>> THEN ExtractedDescription
            ELSE IF IsSet(ExtractedDescription)
                 THEN Str(Cleandoc(ExtractedDescription[2]) \o <<"\n", "\n">> \o ContentText)
                 ELSE Str(ContentText)

\* Content was appended to the indented two-line docstring of field w.
C12_Witness ==
    /\ FieldRunDone /\ RunReturned
    /\ "override-description" \notin DOMAIN ret.args.options
    /\ ret.args.content # <<>>
    /\ ExtractedDescription = Str(<<"\n", " ", " ", "p", "\n", " ", " ", " ", "q", "\n", " ", " ">>)
    /\ ret.self.field_description =
          Str(<<"p", "\n", " ", "q", "\n", "\n", "c", "1", "\n", "c", "2">>)

\* The options without the given one.
Without(options, key) == [x \in DOMAIN options \ {key} |-> options[x]]

\* The entry of the same directive without override-type and skip-examples.
EntryWithoutOverrides ==
    FieldEntry([ret.args EXCEPT
                  !.options = Without(Without(@, "override-type"), "skip-examples")])

\* The paragraph under the Type header of the section, NoneV without one.
ShownTypeLine(section) ==
    LET c == section.children
        p == IF Len(c) >= 3 /\ c[3][1] = "important" THEN 4 ELSE 3
    IN IF Len(c) > p /\ c[p] = Header("Type") THEN c[p + 1] ELSE NoneV

\* The section ends with the values group: it has no Examples group.
NoExamplesGroup(e, section) ==
    Len(section.children) =
        2 + Len(GroupNodes(e, "deprecation")) + Len(GroupNodes(e, "type"))
          + Len(GroupNodes(e, "description")) + Len(GroupNodes(e, "values"))

\* The attributes of the entry that the two options leave alone.
SameButTypeAndExamples(e, b) ==
    /\ e.field_name = b.field_name
    /\ e.field_alias = b.field_alias
    /\ e.field_description = b.field_description
    /\ e.field_values = b.field_values
    /\ e.deprecation_warning = b.deprecation_warning
    /\ e.label = b.label

\* C13 as stated: with override-type the type line is a literal of exactly
\* the given string; with skip-examples the section has no Examples group;
\* no other attribute of the entry changes.
C13_OverridesAsStated ==
    (FieldRunDone /\ RunReturned) =>
        /\ "override-type" \in DOMAIN ret.args.options =>
              ShownTypeLine(ret.out[2][1]) =
                  <<"paragraph", <<"literal", ret.args.options["override-type"]>>>>
        /\ "skip-examples" \in DOMAIN ret.args.options =>
              NoExamplesGroup(ret.self, ret.out[2][1])
        /\ SameButTypeAndExamples(ret.self, EntryWithoutOverrides)

\* C13: with override-type the type label of the entry is exactly the given
\* string whatever type was extracted, and the type line is made of it as
\* of any label (a literal of the string, 'One of: ' and the list when the
\* string has the Literal[...] form, no Type group when it is empty); with
\* skip-examples the entry has no examples and the section no Examples
\* group; without the option the attribute is as extracted; no other
\* attribute of the entry changes.
C13_Overrides ==
    (FieldRunDone /\ RunReturned) =>
        /\ IF "override-type" \in DOMAIN ret.args.options
           THEN /\ ret.self.field_type = Str(ret.args.options["override-type"])
                /\ ShownTypeLine(ret.out[2][1]) =
                      IF ret.args.options["override-type"] = <<>> THEN NoneV
                      ELSE TypeLine(ret.args.options["override-type"])
           ELSE ret.self.field_type = EntryWithoutOverrides.field_type
        /\ IF "skip-examples" \in DOMAIN ret.args.options
           THEN /\ ret.self.field_examples = NoneV
                /\ NoExamplesGroup(ret.self, ret.out[2][1])
           ELSE ret.self.field_examples = EntryWithoutOverrides.field_examples
        /\ SameButTypeAndExamples(ret.self, EntryWithoutOverrides)

\* Both options were given on the optional field tu, whose annotated type
\* declares two examples and whose extracted type is str.
C13_Witness ==
    /\ FieldRunDone /\ RunReturned
    /\ ret.args.arguments[2] = <<"t", "u">>
    /\ "skip-examples" \in DOMAIN ret.args.options
    /\ "override-type" \in DOMAIN ret.args.options
    /\ ret.args.options["override-type"] = <<"T">>
    /\ EntryWithoutOverrides.field_type = Str(<<"s", "t", "r">>)
    /\ Len(EntryWithoutOverrides.field_examples[2]) = 2
    /\ ret.self.field_type = Str(<<"T">>)
    /\ ret.self.field_examples = NoneV
    /\ ShownTypeLine(ret.out[2][1]) = <<"paragraph", <<"literal", <<"T">>>>>>

(***************************************************************************)
(* The example blocks.                                                     *)
(***************************************************************************)
\* The text _build_examples_block hands to the parser: the example under
\* its key, a newline at the end.
HandedText(alias, example) ==
    LET keyed == LastSegment(alias) \o <<":", " ">> \o example
    IN IF keyed[Len(keyed)] = "\n" THEN keyed ELSE keyed \o <<"\n">>

\* The example is not YAML.
Unparsable(alias, example) == IsRaise(yaml_safe_load(HandedText(alias, example)))

\* The text without the newlines at its end.
WithoutTrailingNewlines(text) ==
    LET ends == {n \in 0..Len(text) : \A k \in (n + 1)..Len(text) : text[k] = "\n"}
    IN SubSeq(text, 1, CHOOSE n \in ends : \A m \in ends : n <= m)

\* The block of an example that is not YAML: a yaml literal block of the
\* text handed to the parser, without the newlines at its end, and a warning.
RawBlock(alias, example) ==
    [kind |-> "literal_block", language |-> "yaml", warned |-> TRUE,
     text |-> WithoutTrailingNewlines(HandedText(alias, example))]

\* C14: for an example that does not parse as YAML, _build_examples_block
\* returns (and does not raise) a yaml literal block of the text handed to
\* the parser, changed only by the removal of the newlines at its end, and
\* warns; a section with such an example has all its groups and one block
\* per example.
C14_InvalidExample ==
    /\ (Called("build_examples_block") /\ Unparsable(ret.args.a, ret.args.b)) =>
          ret.out = RawBlock(ret.args.a, ret.args.b)
    /\ (Called("create_field_node") /\ IsSet(ret.args.a.field_examples)) =>
          LET e == ret.args.a
              n == Len(e.field_examples[2])
              c == ret.out.children
          IN /\ Len(c) = 3 + n + Len(GroupNodes(e, "deprecation")) + Len(GroupNodes(e, "type"))
                         + Len(GroupNodes(e, "description")) + Len(GroupNodes(e, "values"))
             /\ \A k \in 1..n :
                   Unparsable(e.field_alias, e.field_examples[2][k]) =>
                      c[Len(c) - n + k] = RawBlock(e.field_alias, e.field_examples[2][k])

\* The value a block text denotes.
Denoted(text) == yaml_safe_load(text \o <<"\n">>)

\* The serialization of the value a text denotes, as a block shows it.
Serialized(text) == WithoutTrailingNewlines(yaml_dump(Denoted(text)))

\* C15: for an example that parses as YAML, the text of the block denotes
\* the mapping {key: value} the input denotes, nothing of the value lost,
\* and formatting that text again gives a text that denotes the same
\* mapping.
C15_FormatIdempotent ==
    (Called("build_examples_block") /\ ~Unparsable(ret.args.a, ret.args.b)) =>
        /\ ~ret.out.warned
        /\ Denoted(ret.out.text) = yaml_safe_load(HandedText(ret.args.a, ret.args.b))
        /\ Denoted(Serialized(ret.out.text)) = Denoted(ret.out.text)

RECURSIVE SameOrder(_, _)
\* The value shown has the keys and the items of the value written, in the
\* order written; a scalar is the scalar written, or what is left of it
\* without a '...' at its end.
SameOrder(shown, written) ==
    /\ shown[1] = written[1]
    /\ Len(shown[2]) = Len(written[2]) \/ shown[1] = "str"
    /\ CASE shown[1] = "str" ->
                shown[2] = written[2] \/ shown[2] \o <<".", ".", ".">> = written[2]
         [] shown[1] = "seq" ->
                \A n \in 1..Len(shown[2]) : SameOrder(shown[2][n], written[2][n])
         [] shown[1] = "map" ->
                \A n \in 1..Len(shown[2]) :
                    /\ shown[2][n][1] = written[2][n][1]
                    /\ SameOrder(shown[2][n][2], written[2][n][2])

\* The value of an example, as it is written.
WrittenValue(example) == yaml_safe_load(HandedText(<<"k">>, example))[2][1][2]

IsLiteralLabel(label) ==
    /\ Len(label) > Len(LITERAL_OPEN)
    /\ SubSeq(label, 1, Len(LITERAL_OPEN)) = LITERAL_OPEN
    /\ label[Len(label)] = "]"

\* The values of the label Literal[...], as declared between the brackets.
DeclaredValues(label) == SubSeq(label, Len(LITERAL_OPEN) + 1, Len(label) - 1)

\* C17: the type line is the text 'One of: ' and a literal of the bracketed
\* list of the values declared when the type label is Literal[...], and a
\* literal of the whole type label in every other case.
C17_TypeLine ==
    (Called("create_field_node") /\ IsSet(ret.args.a.field_type)) =>
        LET label == ret.args.a.field_type[2]
        IN ShownTypeLine(ret.out) =
              IF IsLiteralLabel(label)
              THEN <<"paragraph", <<"Text", "One of: ">>,
                     <<"literal", <<"[">> \o DeclaredValues(label) \o <<"]">>>>>>
              ELSE <<"paragraph", <<"literal", label>>>>

\* The table of the section of entry e: the node under the Values header.
ValuesTable(e, section) ==
    section.children[4 + Len(GroupNodes(e, "deprecation")) + Len(GroupNodes(e, "type"))
                       + Len(GroupNodes(e, "description"))]

\* C18: the values table has two columns, the one header row 'Value',
\* 'Description', and one body row per pair of the entry in the order of
\* the pairs: row i holds the value of pair i as a literal and the parsed
\* explanation of pair i.
C18_ValuesTable ==
    (Called("create_field_node") /\ ret.args.a.field_values # <<>>) =>
        LET pairs == ret.args.a.field_values
            table == ValuesTable(ret.args.a, ret.out)
        IN /\ table[1] = "container"
           /\ table[2].cols = 2
           /\ table[2].thead = << <<"Value", "Description">> >>
           /\ Len(table[2].tbody) = Len(pairs)
           /\ \A i \in 1..Len(pairs) :
                 /\ Len(table[2].tbody[i]) = 2
                 /\ table[2].tbody[i][1] = <<"literal", pairs[i][1]>>
                 /\ table[2].tbody[i][2] = << <<"rst", pairs[i][2]>> >>

\* A table of the two pairs (v2, d2), (v1, d1), in this order, was built
\* under a type line and a description.
C18_Witness ==
    /\ Called("create_field_node")
    /\ Len(ret.args.a.field_values) = 2
    /\ IsSet(ret.args.a.field_type) /\ IsSet(ret.args.a.field_description)
    /\ ValuesTable(ret.args.a, ret.out)[2].tbody =
          << << <<"literal", <<"v", "2">>>>, << <<"rst", <<"d", "2">>>> >> >>,
             << <<"literal", <<"v", "1">>>>, << <<"rst", <<"d", "1">>>> >> >> >>

(***************************************************************************)
(* The nodes of kitbash-model.                                             *)
(***************************************************************************)
\* The text kitbash-model shows in front of the sections: the content of
\* the directive, else the docstring of the model unless skip-description
\* is given, else none.
ModelDescription ==
    IF ret.args.content # <<>> THEN Str(ContentText)
    ELSE IF "skip-description" \notin DOMAIN ret.args.options /\ IsSet(TargetModel.doc)
         THEN TargetModel.doc
         ELSE NoneV

\* The index of the field in the declaration order of the model.
DeclaredAt(name) ==
    CHOOSE k \in 1..Len(TargetModel.fields) : TargetModel.fields[k].name = name

\* C19: kitbash-model returns the parsed content when content is given,
\* else the parsed docstring of the model unless skip-description is given
\* or the model has none, else nothing; then one section per rendered
\* field, the fields in the declaration order of the model.
C19_ModelNodes ==
    (RunReturned /\ ret.op = "kitbash-model") =>
        LET out == ret.out[2]
            head == IF IsNone(ModelDescription) THEN 0 ELSE 1
        IN /\ Len(out) = head + Len(rendered)
           /\ head = 1 => out[1] = <<"rst", ModelDescription[2]>>
           /\ \A k \in 1..Len(rendered) :
                 out[head + k].children[1] =
                     <<"title", DisplayAlias(FieldOf(TargetModel, rendered[k].field),
                                             ret.args.options)>>
           /\ \A j, k \in 1..Len(rendered) :
                 j < k => DeclaredAt(rendered[j].field) < DeclaredAt(rendered[k].field)

\* Model M, which has a docstring, was rendered with content and
\* skip-description: the content, then the sections of its fields.
C19_Witness ==
    /\ RunReturned /\ ret.op = "kitbash-model"
    /\ ret.args.content # <<>>
    /\ "skip-description" \in DOMAIN ret.args.options
    /\ IsSet(TargetModel.doc)
    /\ ret.out[2][1] = <<"rst", <<"c", "1", "\n", "c", "2">>>>
    /\ Len(ret.out[2]) >= 4
    /\ ret.out[2][2].children[1] = <<"title", <<"x">>>>
    /\ ret.out[2][3].children[1] = <<"title", <<"u">>>>

(***************************************************************************)
(* The type labels.                                                        *)
(***************************************************************************)
RECURSIVE WithoutModulePaths(_)
\* The text with every dotted module path in front of a name removed, the
\* texts between quotes left as written.
WithoutModulePaths(s) ==
    LET o == IndexFrom(s, "'", 1)
        c == IF o = 0 THEN 0 ELSE IndexFrom(s, "'", o + 1)
    IN IF o = 0 \/ c = 0 THEN SubModulePrefix(s, 1)
       ELSE SubModulePrefix(SubSeq(s, 1, o - 1), 1) \o SubSeq(s, o, c)
            \o WithoutModulePaths(SubSeq(s, c + 1, Len(s)))

\* C20: format_type_string returns '' for None, the bare name of the class
\* for a class, and for any other type its text without the dotted module
\* paths in front of the names, the quoted values of a Literal[...] left as
\* written.
C20_FormatTypeString ==
    Called("format_type_string") =>
        LET t == ret.args.a
        IN ret.out = IF IsNone(t) THEN <<>>
                     ELSE IF IsClass(t) THEN LastSegment(t[3])
                     ELSE WithoutModulePaths(TypeStr(t))

\* The places of the metadata that hold a FieldInfo.
FieldInfoPlaces(metadata) ==
    IF IsNone(metadata) THEN {}
    ELSE {k \in 1..Len(metadata[2]) : metadata[2][k][1] = "FieldInfo"}

WrapperFieldInfo(annotation) ==
    LET annotated_type == annotation[2][1]
        places == IF annotated_type[1] = "Annotated"
                  THEN {k \in 1..Len(annotated_type[3]) :
                           annotated_type[3][k][1] = "FieldInfo"}
                  ELSE {}
    IN IF places = {} THEN NoneV
       ELSE annotated_type[3][CHOOSE k \in places : \A j \in places : j <= k]

\* C23: in the annotated-optional step, when the annotated type has
\* field-metadata, each attribute is filled on its own: the description is
\* the metadata's whenever the entry had none, the examples are the
\* metadata's whenever the entry had none, and an attribute that was set is
\* left as it was.
C23_IndependentFill ==
    (Called("get_optional_annotated_field_data")
     /\ ~IsNone(WrapperFieldInfo(ret.args.b))) =>
        /\ ret.out.field_description =
              IF IsNone(ret.args.a.field_description)
              THEN WrapperFieldInfo(ret.args.b)[2]
              ELSE ret.args.a.field_description
        /\ ret.out.field_examples =
              IF IsNone(ret.args.a.field_examples)
              THEN WrapperFieldInfo(ret.args.b)[3]
              ELSE ret.args.a.field_examples
\* The path get_pydantic_model was called with names the class.
NamesClass(c) ==
    (IF ret.args.a # <<>> THEN ret.args.a \o <<".">> \o ret.args.b ELSE ret.args.b)
        = c.module \o <<".">> \o c.name

\* C25: get_pydantic_model on a model and a field name the model has
\* returns the first class of the model's __mro__, the model first, that is
\* a model and annotates the field; on an empty field name it returns the
\* named model.
C25_DeclaringClass ==
    Called("get_pydantic_model") =>
        \A c \in Classes :
            (c.kind = "model" /\ NamesClass(c)) =>
                /\ ret.args.c = <<>> => ret.out = <<"ok", c.name>>
                /\ ret.args.c \in FieldNames(c) =>
                      ret.out = <<"ok", DeclaringClass(c, ret.args.c).name>>

\* Field a of C(N, P): the mixin N annotates it and is passed over, the
\* parent P is returned.
C25_Witness ==
    /\ Called("get_pydantic_model")
    /\ ret.args.a = <<>>
    /\ ret.args.b = <<"m", ".", "C">>
    /\ ret.args.c = <<"a">>
    /\ ret.out = <<"ok", <<"P">>>>
\* The type under an optional wrapper and under an annotated type.
Unwrapped(t) ==
    LET IsNoneType(x) == x[1] = "class" /\ x = NoneType
        Inner(u) == IF u[1] = "Annotated" THEN u[2] ELSE u
    IN IF t[1] \in {"UnionType", "Union"}
       THEN Inner(IF IsNoneType(t[2][1]) THEN t[2][2] ELSE t[2][1])
       ELSE Inner(t)

\* The field's type is an enumerated type: bare, optional, or under an
\* annotated optional wrapper.
IsEnumTyped(f) == Unwrapped(f.annotation)[1] = "enum"

\* The field of the run, as the class that declares it holds it.
RunField0 ==
    FieldOf(DeclaringClass(TargetModel, ret.args.arguments[2]), ret.args.arguments[2])

\* The description by the priority of the sources: the string literal
\* beneath the declaration, else the description of the field's metadata,
\* else that of the field-metadata of an optional annotated type, else the
\* docstring of the enum, else None.
DescriptionByPriority(cls, f) ==
    LET beneath == AdjacentDocstring(cls.body, "AnnAssign", f.name)
        wrapped == IF f.annotation[1] = "Union" THEN WrapperFieldInfo(f.annotation)
                   ELSE NoneV
    IN IF ~IsNone(beneath) THEN beneath
       ELSE IF ~IsNone(f.description) THEN f.description
       ELSE IF ~IsNone(wrapped) /\ ~IsNone(wrapped[2]) THEN wrapped[2]
       ELSE IF IsEnumTyped(f) THEN ClassOf(Unwrapped(f.annotation)).doc
       ELSE NoneV

\* A kitbash-field run that returned and was given neither content nor
\* override-description: its description is the extracted one.
ExtractionShown ==
    /\ FieldRunDone /\ RunReturned
    /\ ret.args.content = <<>>
    /\ "override-description" \notin DOMAIN ret.args.options

\* C21: the description of a field is the first that exists of: the string
\* literal beneath its declaration in the declaring class, the description
\* of its metadata, the description of the field-metadata of its optional
\* annotated type, the docstring of its enum.
C21_DescriptionPriority ==
    ExtractionShown =>
        ret.self.field_description =
            DescriptionByPriority(DeclaringClass(TargetModel, ret.args.arguments[2]),
                                  RunField0)

\* C22: a kitbash-field run on a field whose type is an enumerated type,
\* bare, optional or under an annotated optional wrapper, returns with the
\* name of the enum as type label and the documented members as values.
C22_EnumTypeAndValues ==
    (FieldRunDone /\ FieldResolves /\ IsEnumTyped(RunField0)
     /\ "override-type" \notin DOMAIN ret.args.options
     /\ ~("override-description" \in DOMAIN ret.args.options /\ ret.args.content = <<>>)) =>
        /\ RunReturned
        /\ ret.self.field_type = Str(Unwrapped(RunField0.annotation)[3])
        /\ ret.self.field_values # <<>>
        /\ ret.self.field_values =
              DocumentedMembers(ClassOf(Unwrapped(RunField0.annotation)).body)
\* The section the loop of kitbash-model builds for the field at index k
\* when it starts from a new directive: no node, an empty registry and
\* every attribute at the default of __init__.
SectionAlone(k) ==
    ModelStep(ret.args, TargetModel, k,
              [nodes |-> <<>>, labels |-> [l \in {} |-> <<>>],
               anonlabels |-> [l \in {} |-> <<>>], rendered |-> <<>>,
               self |-> InitialFields, exc |-> "none"]).nodes[1]

\* C26: in a kitbash-model run that returns, the section of every rendered
\* field is the one a run over that field alone produces, whichever fields
\* were rendered or skipped before it, and the run ends with every entry
\* attribute at its default.
C26_NoCarryOver ==
    (RunReturned /\ ret.op = "kitbash-model") =>
        /\ \A k \in 1..Len(rendered) :
              RunSections[k] = SectionAlone(DeclaredAt(rendered[k].field))
        /\ ret.self = InitialFields

\* Model W was rendered: the enum field f3, which has values and a
\* docstring, then x2, which has a type and one example only.
C26_Witness ==
    /\ RunReturned /\ ret.op = "kitbash-model"
    /\ ret.args.arguments = << <<"m", ".", "W">> >>
    /\ \E j, k \in 1..Len(rendered) :
          /\ j < k
          /\ rendered[j].field = <<"f", "3">>
          /\ rendered[k].field = <<"x", "2">>
          /\ RunSections[j].children[5] = Header("Description")
          /\ RunSections[j].children[7] = Header("Values")
          /\ Len(RunSections[k].children) = 6
\* C27: a kitbash-field run that raises returns no node and leaves both
\* maps of the registry as they were before the run.
C27_FailedFieldRun ==
    [][(ret'.op = "kitbash-field" /\ IsRaise(ret'.out)) =>
          (labels' = labels /\ anonlabels' = anonlabels)]_vars

\* A run with override-description and no content failed after a run that
\* had registered a label.
C27_Witness ==
    /\ nruns = 2
    /\ DOMAIN labels # {}
    /\ FieldRunDone
    /\ ret.out = Raise("ExtensionError")

\* What a run returns when it starts from an empty registry.
OutputAlone(i) ==
    LET Field1(self) ==
            IF Raised(self) THEN Raise(self.exc)
            ELSE <<"ok", <<create_field_node(self)>>>>
        Looped(st) == IF st.exc # "none" THEN Raise(st.exc) ELSE <<"ok", st.nodes>>
        Model1(found) ==
            IF IsRaise(found) THEN found
            ELSE Looped(ModelLoop(i, found[2], 1,
                                  [nodes |-> ClassNode(found[2], i),
                                   labels |-> [l \in {} |-> <<>>],
                                   anonlabels |-> [l \in {} |-> <<>>],
                                   rendered |-> <<>>,
                                   self |-> InitialFields, exc |-> "none"]))
    IN IF i.kind = "field" THEN Field1(FieldEntry(i))
       ELSE Model1(get_pydantic_model(i.py_module, i.arguments[1], <<>>))

\* Every label of 'labels' is in 'anonlabels' under the same document and
\* label, and 'anonlabels' holds no other label.
RegistryAgrees ==
    /\ DOMAIN labels = DOMAIN anonlabels
    /\ \A l \in DOMAIN labels : anonlabels[l] = <<labels[l][1], labels[l][2]>>

\* C28: after any sequence of runs the two maps of the registry agree, no
\* run removes a label from either, and what a run returns is what it
\* returns from an empty registry.
C28_Registry ==
    /\ [](RegistryAgrees /\ (ret.op # "none" => ret.out = OutputAlone(ret.args)))
    /\ [][DOMAIN labels \subseteq DOMAIN labels'
          /\ DOMAIN anonlabels \subseteq DOMAIN anonlabels']_vars

\* A label was written from one document and then from the other, next to
\* nothing else: both maps hold the second document.
C28_Witness ==
    /\ Len(rendered) = 2
    /\ rendered[1].label = rendered[2].label
    /\ rendered[1].doc # rendered[2].doc
    /\ anonlabels[rendered[2].label][1] = rendered[2].doc

\* C29: in one kitbash-model run two different fields of the model never
\* receive the same label.
C29_DistinctLabels ==
    (RunReturned /\ ret.op = "kitbash-model") =>
        \A j, k \in 1..Len(rendered) :
            rendered[j].field # rendered[k].field => rendered[j].label # rendered[k].label

\* C30: a kitbash-model run that raises returns no node and leaves both
\* maps of the registry as they were before the run.
C30_AllOrNothing ==
    [][(ret'.op = "kitbash-model" /\ IsRaise(ret'.out)) =>
          (labels' = labels /\ anonlabels' = anonlabels)]_vars
====
